---- MODULE Spec2Model ----
(***************************************************************************)
(* Verification model of fallout-xbox-360-utils:                           *)
(*   - the minidump module reassembler (src/src/minidump_extractor.py),    *)
(*   - the coverage analyzer (src/analyze_coverage.py),                    *)
(*   - the carving engine (src/carver.py, modelled from the specification, *)
(*     the file is not part of the source tree),                           *)
(*   - the command line driver (src/main.py),                              *)
(*   - the integrity pass (src/src/integrity.py),                          *)
(*   - the string extractor (src/extract_strings.py),                      *)
(*   - the high-entropy scan (src/compare_dumps.py).                       *)
(* Each component has its own specification; the variables of the other    *)
(* components stay at their idle value.                                    *)
(***************************************************************************)
EXTENDS Integers, Sequences, FiniteSets, TLC

VARIABLES
    \* ---- minidump reassembler (MinidumpExtractor.extract_modules)
    mdmp,               \* the dump file being parsed (input)
    pc,                 \* position inside extract_modules
    modules,            \* result of _parse_modules
    memory_ranges,      \* result of _parse_memory_ranges
    idx,                \* index of the module being extracted (1-based)
    module_ranges,      \* ranges selected and sorted for the current module
    ri,                 \* position of the copy loop in module_ranges
    module_data,        \* the module buffer (bytearray)
    bytes_filled,       \* counter of copied bytes
    extracted_modules,  \* the returned list
    out_files,          \* files in output_dir: name -> contents
    copies,             \* history: the slice assignments done for the current module
    verdicts,           \* history: per processed module, its buffer and outcome
    \* ---- coverage analyzer (CoverageAnalyzer.analyze_dump)
    cov_pc,             \* position inside analyze_dump
    dump_bytes,         \* contents of the analysed dump (input)
    carver_manifest,    \* carver.manifest after carve_dump (input)
    report,             \* the CoverageReport being filled
    merged,             \* the merged list built by _analyze_unknown_regions
    \* ---- carving engine (MemoryCarver.carve_dump)
    carve_pc,           \* position inside carve_dump
    carve_dump,         \* contents of the dump being carved (input)
    chunk_size,         \* configured chunk size
    position,           \* start of the next chunk
    seen,               \* absolute offsets already handled (deduplication)
    candidates,         \* match records in the order they were accepted
    resolved,           \* records kept by overlap resolution
    wi,                 \* position of the write loop in resolved
    manifest,           \* the manifest entries
    carved_files,       \* offsets of the output files on disk
    \* ---- command line driver (main.py)
    main_pc,            \* position inside main
    args,               \* parsed arguments and the dumps they name (input)
    di,                 \* index of the dump of the running loop (1-based)
    module_results,     \* history: per dump, what module extraction produced
    carve_log,          \* history: per dump, how carve_dump ended
    integrity_run,      \* how the optional integrity pass ended, "none" if not run
    exit_code,          \* status of the process, -1 while it runs
    \* ---- integrity pass (integrity.generate_integrity_report)
    int_pc,             \* position inside generate_integrity_report
    file_types,         \* the file_types argument, {} for None
    out_dir,            \* the files under output_dir: name -> contents
    out_dir0,           \* history: out_dir when the pass was called
    visited,            \* the files os.walk has yielded so far
    \* ---- string extractor (StringExtractor.extract_strings)
    se_pc,              \* position inside StringExtractor() and extract_strings
    se_data,            \* contents of the dump (input)
    se_entries,         \* the entries of the carve manifest (input)
    exclude_carved,     \* the exclude_carved argument
    carved_regions,     \* self.carved_regions
    all_strings,        \* the list being returned
    seen_texts,         \* the texts already in all_strings
    \* ---- high-entropy scan (compare_dumps.analyze_high_entropy_details)
    he_pc,              \* position inside analyze_high_entropy_details
    he_data,            \* the dump, chunk by chunk (input)
    min_size,           \* min_size_mb * 1024 * 1024
    he_offset,          \* offset of the loop over the chunks
    in_region,          \* a high-entropy run is open
    region_start,       \* where the open run began
    entropy_regions     \* the list `regions` of (start, size)

xvars == <<mdmp, pc, modules, memory_ranges, idx, module_ranges, ri, module_data,
           bytes_filled, extracted_modules, out_files, copies, verdicts>>

cvars == <<cov_pc, dump_bytes, carver_manifest, report, merged>>

kvars == <<carve_pc, carve_dump, chunk_size, position, seen, candidates, resolved, wi,
           manifest, carved_files>>

mvars == <<main_pc, args, di, module_results, carve_log, integrity_run, exit_code>>

ivars == <<int_pc, file_types, out_dir, out_dir0, visited>>

svars == <<se_pc, se_data, se_entries, exclude_carved, carved_regions, all_strings,
           seen_texts>>

hvars == <<he_pc, he_data, min_size, he_offset, in_region, region_start, entropy_regions>>

vars == <<xvars, cvars, kvars, mvars, ivars, svars, hvars>>

\* what the actions of one component leave alone
NotExtract == <<cvars, kvars, mvars, ivars, svars, hvars>>
NotCoverage == <<xvars, kvars, mvars, ivars, svars, hvars>>
NotCarve == <<xvars, cvars, mvars, ivars, svars, hvars>>
NotMain == <<cvars, kvars, ivars, svars, hvars>>
NotIntegrity == <<xvars, cvars, kvars, mvars, svars, hvars>>
NotStrings == <<xvars, cvars, kvars, mvars, ivars, hvars>>
NotEntropy == <<xvars, cvars, kvars, mvars, ivars, svars>>

Range(s) == { s[k] : k \in DOMAIN s }

Min(a, b) == IF a < b THEN a ELSE b
Max(a, b) == IF a > b THEN a ELSE b

(***************************************************************************)
(* Bounds of the reassembler model                                         *)
(***************************************************************************)
MaxRanges == 3

\* The two modules of the modelled process; 72 bytes hold a DOS header
\* (e_lfanew at 0x3C) and a PE signature with its machine field at 0x40.
ModA == [base |-> 16, size |-> 72, name |-> "fallout.exe"]
ModB == [base |-> 88, size |-> 72, name |-> "xam"]
ModuleLists == {<<ModA>>, <<ModA, ModB>>}

\* A module of n bytes above the two others: too small, for most n, to hold
\* the fields the header check reads.
SmallBase == 160
SmallMod(n) == [base |-> SmallBase, size |-> n, name |-> "tiny.dll"]
SmallSizes == {1, 2, 4, 60, 63, 64, 66, 69, 70, 72}

\* (va, size) of the memory64 descriptors a dump may hold: exact cover of A,
\* head and tail of A, a range containing A, one starting below A and ending
\* inside, one starting inside A and ending above it (inside B), exact cover of B.
RangeDescs ==
    { [va |-> 16, size |-> 72], [va |-> 16, size |-> 40], [va |-> 56, size |-> 32],
      [va |-> 8,  size |-> 96], [va |-> 8,  size |-> 40], [va |-> 48, size |-> 64],
      [va |-> 88, size |-> 72] }

\* Memory contents at the start of every module: which header fields are valid.
Images ==
    { [mz |-> TRUE,  lfanew |-> 64, sig |-> TRUE,  machine |-> 498],
      [mz |-> FALSE, lfanew |-> 64, sig |-> TRUE,  machine |-> 498],
      [mz |-> TRUE,  lfanew |-> 64, sig |-> FALSE, machine |-> 498],
      [mz |-> TRUE,  lfanew |-> 67, sig |-> TRUE,  machine |-> 498],
      [mz |-> TRUE,  lfanew |-> 68, sig |-> TRUE,  machine |-> 332] }

GoodImage == CHOOSE g \in Images : g.mz /\ g.sig /\ g.lfanew = 64

SeqsUpTo(S, n) == UNION { [1..k -> S] : k \in 0..n }

\* the concatenation of a list of byte strings
RECURSIVE Flatten(_)
Flatten(blocks) == IF blocks = <<>> THEN <<>> ELSE Head(blocks) \o Flatten(Tail(blocks))

(***************************************************************************)
(* The dump file: memory64 payloads are concatenated after base_rva.       *)
(***************************************************************************)
RECURSIVE SumSizes(_, _)
SumSizes(descs, n) == IF n = 0 THEN 0 ELSE descs[n].size + SumSizes(descs, n - 1)

\* lines 99-103: the running offset, from descriptor k on
RECURSIVE AssignOffsets(_, _, _)
AssignOffsets(descs, k, current_offset) ==
    IF k > Len(descs) THEN <<>>
    ELSE <<[va |-> descs[k].va, size |-> descs[k].size,
            file_offset |-> current_offset, stream |-> k]>>
         \o AssignOffsets(descs, k + 1, current_offset + descs[k].size)

\* mutant: the running offset is advanced before it is assigned
ParseMemoryRanges_AdvanceFirst(descs, base_rva) ==
    [i \in 1..Len(descs) |->
        [va |-> descs[i].va, size |-> descs[i].size,
         file_offset |-> base_rva + SumSizes(descs, i), stream |-> i]]

\* lines 87-105: _parse_memory_ranges (stream is the position in the list)
ParseMemoryRanges(descs, base_rva) == AssignOffsets(descs, 1, base_rva)

\* Byte of memory at virtual address va as captured by the range with stream
\* index i: header fields of the module containing va, else a tag naming i.
Tag(i) == 100 + i

HeaderByte(g, i, o) ==
    CASE o = 0 /\ g.mz -> 77
      [] o = 1 /\ g.mz -> 90
      [] o \in {0, 1} /\ ~g.mz -> 0
      [] o = 60 -> g.lfanew
      [] o \in 61..63 -> 0
      [] o = g.lfanew /\ g.sig -> 80
      [] o = g.lfanew + 1 /\ g.sig -> 69
      [] o \in (g.lfanew + 2)..(g.lfanew + 3) /\ g.sig -> 0
      [] o = g.lfanew + 4 -> g.machine % 256
      [] o = g.lfanew + 5 -> g.machine \div 256
      [] OTHER -> Tag(i)

InModule(m, va) == m.base <= va /\ va < m.base + m.size

ImageByte(g, i, va) ==
    IF InModule(ModA, va) THEN HeaderByte(g, i, va - ModA.base)
    ELSE IF InModule(ModB, va) THEN HeaderByte(g, i, va - ModB.base)
    ELSE IF va >= SmallBase THEN HeaderByte(g, i, va - SmallBase)
    ELSE Tag(i)

\* The memory64 payload area of the dump file, from base_rva on: the payloads
\* of the ranges in stream order.
RECURSIVE PayloadUpTo(_, _, _)
PayloadUpTo(descs, g, n) ==
    IF n = 0 THEN <<>>
    ELSE PayloadUpTo(descs, g, n - 1) \o
         [j \in 1..descs[n].size |-> ImageByte(g, n, descs[n].va + j - 1)]

Payload(descs, g) == PayloadUpTo(descs, g, Len(descs))

FileLen(d) == d.base_rva + Len(d.payload)

\* The byte of the dump file at offset off (inside the memory64 payload area).
FileByte(d, off) == d.payload[off - d.base_rva + 1]

\* f.seek(off); f.read(n): short at the end of the file.
Read(d, off, n) ==
    LET avail == Max(0, Min(n, FileLen(d) - off))
    IN  [j \in 1..avail |-> FileByte(d, off + j - 1)]

(***************************************************************************)
(* MinidumpExtractor._extract_module_from_ranges, the pure parts           *)
(***************************************************************************)
\* line 167: the range test of the selection loop
Selected(r, mod_start, mod_end) ==
    \/ (r.va >= mod_start /\ r.va < mod_end)
    \/ (r.va + r.size > mod_start /\ r.va + r.size <= mod_end)

\* lines 161-168: module_ranges in memory64-stream order
SelectRanges(ranges, mod) ==
    SelectSeq(ranges, LAMBDA r : Selected(r, mod.base, mod.base + mod.size))

\* line 175: list.sort(key=va) is stable
RECURSIVE InsertByVa(_, _)
InsertByVa(r, s) ==
    IF s = <<>> THEN <<r>>
    ELSE IF r.va < Head(s).va THEN <<r>> \o s
    ELSE <<Head(s)>> \o InsertByVa(r, Tail(s))

RECURSIVE SortByVa(_)
SortByVa(s) ==
    IF s = <<>> THEN <<>>
    ELSE InsertByVa(s[Len(s)], SortByVa(SubSeq(s, 1, Len(s) - 1)))

\* lines 183-185: ranges whose start is outside the buffer are passed over
SkipsRange(offset_in_module, mod_size) ==
    offset_in_module < 0 \/ offset_in_module >= mod_size

\* line 190
CopySize(data_len, mod_size, offset_in_module) ==
    Min(data_len, mod_size - offset_in_module)

\* line 191: module_data[off : off + copy_size] = data[:copy_size]
Splice(buf, off, data, copy_size) ==
    [i \in 1..Len(buf) |->
        IF i > off /\ i <= off + copy_size THEN data[i - off] ELSE buf[i]]

\* python slice buf[a:b] for 0 <= a
Slice(buf, a, b) == SubSeq(buf, a + 1, Min(b, Len(buf)))

\* struct.unpack("<I", ...) and struct.unpack("<H", ...)
U32LE(b) == b[1] + 256 * b[2] + 65536 * b[3] + 16777216 * b[4]

\* mutant: the machine field is read in the byte order of the console (">H")
U16BE(b) == 256 * b[1] + b[2]

U16LE(b) == b[1] + 256 * b[2]

MZ == <<77, 90>>
PESig == <<80, 69, 0, 0>>

PeOffset(buf) == U32LE(Slice(buf, 60, 64))

\* mutant: the PE signature is not compared
ModuleVerdict_NoSigCheck(buf) ==
    IF Slice(Slice(buf, 0, 4), 0, 2) # MZ THEN "no_mz"
    ELSE IF Len(Slice(buf, 60, 64)) # 4 THEN "error"
    ELSE IF PeOffset(buf) >= Len(buf) - 4 THEN "bad_pe_offset"
    ELSE IF Len(Slice(buf, PeOffset(buf) + 4, PeOffset(buf) + 6)) # 2 THEN "error"
    ELSE "ok"

\* lines 194-212: the outcome of the header checks for a filled buffer.
\* "error" is a struct.error raised by unpack on a short slice.
ModuleVerdict(buf) ==
    IF Slice(Slice(buf, 0, 4), 0, 2) # MZ THEN "no_mz"
    ELSE IF Len(Slice(buf, 60, 64)) # 4 THEN "error"
    ELSE IF PeOffset(buf) >= Len(buf) - 4 THEN "bad_pe_offset"
    ELSE IF Slice(buf, PeOffset(buf), PeOffset(buf) + 4) # PESig THEN "bad_sig"
    ELSE IF Len(Slice(buf, PeOffset(buf) + 4, PeOffset(buf) + 6)) # 2 THEN "error"
    ELSE "ok"

\* lines 212-214
MachineName(machine) ==
    CASE machine = 332 -> "i386"
      [] machine = 34404 -> "AMD64"
      [] machine = 496 -> "PowerPC"
      [] machine = 497 -> "PowerPC FP"
      [] machine = 498 -> "PowerPC BE"
      [] OTHER -> "hex"

\* lines 217-219: Path(mod_name).name, ".dll" added when no executable suffix
SafeName(name) ==
    CASE name = "fallout.exe" -> "fallout.exe"
      [] name = "xam" -> "xam.dll"
      [] OTHER -> name

(***************************************************************************)
(* MinidumpExtractor.extract_modules as a state machine                    *)
(***************************************************************************)
\* well-formed dumps with up to n memory ranges
WellFormed(n) ==
    { [magic_ok |-> TRUE, truncated |-> "none", streams |-> <<4, 9>>, modules |-> ms,
       descs |-> ds, base_rva |-> 32, image |-> g, payload |-> Payload(ds, g)] :
         ms \in ModuleLists, ds \in SeqsUpTo(RangeDescs, n), g \in Images }

\* where a dump file can end early: inside the header, the stream directory,
\* the module list or the memory64 list
Truncations == {"none", "header", "directory", "modules", "ranges"}

\* dumps with a bad magic, without one of the two streams, with foreign streams,
\* or cut short
Odd ==
    { [magic_ok |-> k, truncated |-> t, streams |-> st, modules |-> <<ModA>>,
       descs |-> ds, base_rva |-> 32, image |-> GoodImage,
       payload |-> Payload(ds, GoodImage)] :
         k \in BOOLEAN, t \in Truncations,
         st \in {<<>>, <<9>>, <<4>>, <<7, 4, 15, 9>>, <<5, 4, 3>>},
         ds \in SeqsUpTo({[va |-> 16, size |-> 72]}, 1) }

\* dumps whose first module is a small one, with e_lfanew before, at and
\* beyond the end of its buffer
SmallImages ==
    { [mz |-> TRUE, lfanew |-> l, sig |-> TRUE, machine |-> 498] :
        l \in {4, 64, 65, 66, 67, 68, 120} }

SmallDescs(n) ==
    { <<[va |-> SmallBase, size |-> n], [va |-> 16, size |-> 72]>>,
      <<[va |-> 16, size |-> 72], [va |-> SmallBase, size |-> n]>>,
      <<[va |-> SmallBase, size |-> n]>> }

SmallDumps ==
    UNION { { [magic_ok |-> TRUE, truncated |-> "none", streams |-> <<4, 9>>,
               modules |-> <<SmallMod(n), ModA>>, descs |-> ds, base_rva |-> 32,
               image |-> g, payload |-> Payload(ds, g)] :
                 g \in SmallImages, ds \in SmallDescs(n) } : n \in SmallSizes }

\* the first module in three memory ranges that tile it, in every stream
\* order, with each machine type
TileDescs == {[va |-> 16, size |-> 24], [va |-> 40, size |-> 24], [va |-> 64, size |-> 24]}

MachineTypes == {332, 34404, 496, 497, 498, 0}

TiledDumps ==
    { [magic_ok |-> TRUE, truncated |-> "none", streams |-> <<4, 9>>,
       modules |-> <<ModA>>, descs |-> ds, base_rva |-> 32,
       image |-> [GoodImage EXCEPT !.machine = mt],
       payload |-> Payload(ds, [GoodImage EXCEPT !.machine = mt])] :
         ds \in { t \in [1..3 -> TileDescs] : Range(t) = TileDescs },
         mt \in MachineTypes }

XInit ==
    /\ mdmp \in WellFormed(MaxRanges) \cup Odd \cup SmallDumps \cup TiledDumps
    /\ pc = "start"
    /\ modules = <<>>
    /\ memory_ranges = <<>>
    /\ idx = 0
    /\ module_ranges = <<>>
    /\ ri = 0
    /\ module_data = <<>>
    /\ bytes_filled = 0
    /\ extracted_modules = <<>>
    /\ out_files = <<>>
    /\ copies = <<>>
    /\ verdicts = <<>>

\* mutant: the 32-bit MemoryListStream (5) is taken for the memory64 list too
StreamKind_MemoryList(stream_type) ==
    CASE stream_type = 4 -> "module"
      [] stream_type \in {5, 9} -> "memory64"
      [] OTHER -> "none"

\* lines 54-57: what _find_streams keeps a directory entry as
StreamKind(stream_type) ==
    CASE stream_type = 4 -> "module"
      [] stream_type = 9 -> "memory64"
      [] OTHER -> "none"

\* lines 49-59: the loop over the directory found a stream of the kind of type t
HasStream(d, t) == \E k \in 1..Len(d.streams) : StreamKind(d.streams[k]) = StreamKind(t)

\* mutant: after a module the loop ends
Advance_StopAtFirst == "save"

\* lines 135-143: after module idx, the next module or _save_module_list
Advance == IF idx + 1 > Len(modules) THEN "save" ELSE "select"

\* lines 32-105 as called from lines 124-132: the exception the parsing raises,
\* "none" when it raises none. A read past the end of the file returns fewer
\* bytes than asked and struct.unpack raises struct.error.
ParseFailure(d) ==
    IF d.truncated = "header" THEN "struct.error"
    ELSE IF ~d.magic_ok THEN "ValueError"
    ELSE IF d.truncated = "directory" /\ Len(d.streams) > 0 THEN "struct.error"
    ELSE IF ~HasStream(d, 4) THEN "none"
    ELSE IF d.truncated = "modules" THEN "struct.error"
    ELSE IF d.truncated = "ranges" /\ HasStream(d, 9) THEN "struct.error"
    ELSE "none"

\* mutant: the handler only expects the error _parse_header raises itself
CaughtByExcept_OnlyValueError(exc) == exc = "ValueError"

\* lines 147 (and 140, and main.py 141, 153, 171): except Exception
CaughtByExcept(exc) == exc \in {"ValueError", "struct.error", "OSError", "Exception"}

\* lines 120-132: header, stream directory, module list, memory64 list
ParseDump ==
    /\ pc = "start"
    /\ IF ParseFailure(mdmp) # "none"
       THEN /\ pc' = IF CaughtByExcept(ParseFailure(mdmp)) THEN "done" ELSE "raised"
            /\ UNCHANGED <<modules, memory_ranges, idx>>
       ELSE IF ~HasStream(mdmp, 4)
       THEN /\ pc' = "done"
            /\ UNCHANGED <<modules, memory_ranges, idx>>
       ELSE /\ modules' = mdmp.modules
            /\ memory_ranges' =
                 IF HasStream(mdmp, 9)
                 THEN ParseMemoryRanges(mdmp.descs, mdmp.base_rva) ELSE <<>>
            /\ idx' = 1
            /\ pc' = IF mdmp.modules = <<>> THEN "save" ELSE "select"
    /\ UNCHANGED <<mdmp, module_ranges, ri, module_data, bytes_filled,
                   extracted_modules, out_files, copies, verdicts>>
    /\ UNCHANGED NotExtract

\* lines 156-181: select and sort the ranges, allocate the zeroed buffer
SelectModuleRanges ==
    /\ pc = "select"
    /\ LET mod == modules[idx]
           sel == SelectRanges(memory_ranges, mod)
       IN  IF sel = <<>>
           THEN /\ verdicts' = Append(verdicts, [idx |-> idx, buf |-> <<>>,
                                                 filled |-> 0, verdict |-> "no_ranges"])
                /\ idx' = idx + 1
                /\ pc' = Advance
                /\ module_ranges' = <<>>
                /\ UNCHANGED <<ri, module_data, bytes_filled, copies>>
           ELSE /\ module_ranges' = SortByVa(sel)
                /\ module_data' = [i \in 1..mod.size |-> 0]
                /\ bytes_filled' = 0
                /\ ri' = 1
                /\ copies' = <<>>
                /\ pc' = "copy"
                /\ UNCHANGED <<idx, verdicts>>
    /\ UNCHANGED <<mdmp, modules, memory_ranges, extracted_modules, out_files>>
    /\ UNCHANGED NotExtract

\* lines 182-192: one iteration of the copy loop
CopyRange ==
    /\ pc = "copy"
    /\ ri <= Len(module_ranges)
    /\ LET mod == modules[idx]
           r == module_ranges[ri]
           offset_in_module == r.va - mod.base
           data == Read(mdmp, r.file_offset, r.size)
           copy_size == CopySize(Len(data), mod.size, offset_in_module)
       IN  IF SkipsRange(offset_in_module, mod.size)
           THEN UNCHANGED <<module_data, bytes_filled, copies>>
           ELSE /\ module_data' = Splice(module_data, offset_in_module, data, copy_size)
                /\ bytes_filled' = bytes_filled + copy_size
                /\ copies' = Append(copies, [stream |-> r.stream,
                                             dst |-> offset_in_module,
                                             src |-> r.file_offset,
                                             n |-> copy_size])
    /\ ri' = ri + 1
    /\ UNCHANGED <<mdmp, pc, modules, memory_ranges, idx, module_ranges,
                   extracted_modules, out_files, verdicts>>
    /\ UNCHANGED NotExtract

\* mutant: the loop over the modules has no handler of its own
CaughtPerModule_None(exc) == FALSE

\* lines 136-141: try / except Exception around the extraction of one module
CaughtPerModule(exc) == exc \in {"ValueError", "struct.error", "OSError", "Exception"}

\* lines 194-238 (and 138-141): check the header, write the file, report
CheckAndSave ==
    /\ pc = "copy"
    /\ ri > Len(module_ranges)
    /\ LET mod == modules[idx]
           v == ModuleVerdict(module_data)
       IN  /\ verdicts' = Append(verdicts, [idx |-> idx, buf |-> module_data,
                                            filled |-> bytes_filled, verdict |-> v])
           /\ IF v = "ok"
              THEN /\ out_files' = Append(SelectSeq(out_files,
                                            LAMBDA f : f.name # SafeName(mod.name)),
                                          [name |-> SafeName(mod.name), data |-> module_data])
                   /\ extracted_modules' = Append(extracted_modules,
                        [name |-> SafeName(mod.name),
                         base_address |-> mod.base,
                         size |-> Len(module_data),
                         bytes_filled |-> bytes_filled,
                         machine |-> MachineName(U16LE(Slice(module_data,
                                        PeOffset(module_data) + 4,
                                        PeOffset(module_data) + 6))),
                         index |-> idx])
              ELSE UNCHANGED <<out_files, extracted_modules>>
    /\ idx' = idx + 1
    /\ pc' = IF ModuleVerdict(module_data) = "error" /\ ~CaughtPerModule("struct.error")
             THEN (IF CaughtByExcept("struct.error") THEN "done" ELSE "raised")
             ELSE Advance
    /\ UNCHANGED <<mdmp, modules, memory_ranges, module_ranges, ri, module_data,
                   bytes_filled, copies>>
    /\ UNCHANGED NotExtract

\* lines 143-150: module_list.txt, then return
SaveModuleList ==
    /\ pc = "save"
    /\ out_files' = Append(SelectSeq(out_files, LAMBDA f : f.name # "module_list.txt"),
                           [name |-> "module_list.txt", data |-> <<>>])
    /\ pc' = "done"
    /\ UNCHANGED <<mdmp, modules, memory_ranges, idx, module_ranges, ri, module_data,
                   bytes_filled, extracted_modules, copies, verdicts>>
    /\ UNCHANGED NotExtract

XNext == ParseDump \/ SelectModuleRanges \/ CopyRange \/ CheckAndSave \/ SaveModuleList

XIdle ==
    /\ mdmp = <<>>
    /\ pc = "idle"
    /\ modules = <<>>
    /\ memory_ranges = <<>>
    /\ idx = 0
    /\ module_ranges = <<>>
    /\ ri = 0
    /\ module_data = <<>>
    /\ bytes_filled = 0
    /\ extracted_modules = <<>>
    /\ out_files = <<>>
    /\ copies = <<>>
    /\ verdicts = <<>>

(***************************************************************************)
(* Properties of the reassembler                                           *)
(***************************************************************************)

\* the range covers the byte of the module at (0-based) offset o
Covers(r, mod, o) == r.va <= mod.base + o /\ mod.base + o < r.va + r.size

\* VA intervals [r.va, r.va + r.size) and [base, base + size) intersect
Intersects(r, mod) == r.va < mod.base + mod.size /\ r.va + r.size > mod.base

\* the copy loop of the current module has run to its end
CopiesDone == pc = "copy" /\ ri > Len(module_ranges)

StreamRange(i) == memory_ranges[i]

\* C1: every module reported as reconstructed has bytes_filled <= size, and
\* every byte counted as filled was copied from a memory range whose VA
\* interval intersects the module's interval.
C1_BytesFilledWithinModule ==
    /\ \A k \in DOMAIN extracted_modules :
           extracted_modules[k].bytes_filled <= extracted_modules[k].size
    /\ pc = "copy" =>
           \A c \in Range(copies) :
               c.n > 0 => Intersects(StreamRange(c.stream), modules[idx])

\* the second half of C1 alone: copied bytes come from intersecting ranges
C1_CopiedFromIntersectingRanges ==
    pc = "copy" =>
        \A c \in Range(copies) :
            c.n > 0 => Intersects(StreamRange(c.stream), modules[idx])

\* C2: among the fragments copied into a module, every byte is written at most
\* once and holds the data of the earliest fragment in memory64-stream order
\* that covers it (first write wins, later copies are skipped).
C2_FirstInStreamWins ==
    CopiesDone =>
        \A o \in 0..(Len(module_data) - 1) :
            LET cs == { c \in Range(copies) : c.dst <= o /\ o < c.dst + c.n }
            IN  cs # {} =>
                  LET first == CHOOSE c \in cs : \A e \in cs : c.stream <= e.stream
                  IN  /\ Cardinality({ k \in DOMAIN copies :
                                         copies[k].dst <= o /\ o < copies[k].dst + copies[k].n }) <= 1
                      /\ module_data[o + 1] = FileByte(mdmp, first.src + (o - first.dst))

\* C3: a memory range is selected for a module iff r.va < me and
\* r.va + r.size > ms, also when it starts below ms and ends above me.
C3_SelectedIffOverlapping ==
    /\ pc = "copy" =>
           Range(module_ranges) =
               { r \in Range(memory_ranges) : Intersects(r, modules[idx]) }
    /\ \A v \in Range(verdicts) :
           v.verdict = "no_ranges" =>
               \A r \in Range(memory_ranges) : ~Intersects(r, modules[v.idx])

\* C4: after reassembly every module byte whose VA is covered by a selected
\* range holds the corresponding dump byte (also when the range begins below
\* the module start), and every other byte of the buffer is 0.
C4_CoveredBytesHoldDumpBytes ==
    CopiesDone =>
        \A o \in 0..(Len(module_data) - 1) :
            LET cov == { r \in Range(module_ranges) : Covers(r, modules[idx], o) }
            IN  IF cov = {}
                THEN module_data[o + 1] = 0
                ELSE \E r \in cov :
                        module_data[o + 1] =
                            FileByte(mdmp, r.file_offset + (modules[idx].base + o - r.va))

HasMZ(buf) == Len(buf) >= 2 /\ buf[1] = 77 /\ buf[2] = 90

HasPE(buf) ==
    /\ Len(buf) >= 64
    /\ LET pe == buf[61] + 256 * buf[62] + 65536 * buf[63] + 16777216 * buf[64]
       IN  /\ pe + 4 <= Len(buf)
           /\ \A k \in 1..4 : buf[pe + k] = PESig[k]

ModuleFiles == { f \in Range(out_files) : f.name # "module_list.txt" }

\* C5: every module file written starts with MZ and has PE\0\0 at the offset
\* given by the u32 at 0x3C; a module whose buffer fails either check has no
\* file and is absent from the returned list.
C5_EmittedModulesHavePEHeader ==
    /\ \A f \in ModuleFiles : HasMZ(f.data) /\ HasPE(f.data)
    /\ \A v \in Range(verdicts) :
           ~(HasMZ(v.buf) /\ HasPE(v.buf)) =>
               /\ \A f \in ModuleFiles : f.name # SafeName(modules[v.idx].name)
               /\ \A e \in Range(extracted_modules) : e.index # v.idx

\* a run that wrote one module and rejected the buffer of another
C5_Witness ==
    /\ ModuleFiles # {}
    /\ \E v \in Range(verdicts) : v.verdict \in {"no_mz", "bad_pe_offset", "bad_sig"}

Processed == pc \in {"save", "done"} /\ ParseFailure(mdmp) = "none" /\ HasStream(mdmp, 4)

\* C16: a module for which no memory range is selected is skipped without
\* error: no file is written for it, it is not in the returned list, and the
\* modules are all processed, in module-list order.
C16_ModuleWithoutRangesSkipped ==
    /\ \A k \in DOMAIN verdicts : verdicts[k].idx = k
    /\ \A v \in Range(verdicts) :
           SelectRanges(memory_ranges, modules[v.idx]) = <<>> =>
               /\ v.verdict = "no_ranges"
               /\ \A f \in ModuleFiles : f.name # SafeName(modules[v.idx].name)
               /\ \A e \in Range(extracted_modules) : e.index # v.idx
    /\ Processed => Len(verdicts) = Len(modules)
    /\ pc # "raised"

\* a finished run whose first module had no range and whose second module
\* was written
C16_Witness ==
    /\ pc = "done"
    /\ Len(verdicts) = 2
    /\ verdicts[1].verdict = "no_ranges"
    /\ verdicts[2].verdict = "ok"
    /\ \E e \in Range(extracted_modules) : e.index = 2

\* the buffer cannot hold the u32 at 0x3C, or the PE signature and the machine
\* field do not fit at the offset it gives
FieldsDoNotFit(buf) == Len(buf) < 64 \/ PeOffset(buf) + 6 > Len(buf)

\* C17: a module whose pe_offset points beyond its buffer, or whose buffer is
\* too small for the fields read, is rejected: no file, no entry in the
\* returned list, and the other modules are still processed.
C17_PeOffsetBeyondBufferRejected ==
    /\ \A v \in Range(verdicts) :
           (v.verdict # "no_ranges" /\ FieldsDoNotFit(v.buf)) =>
               /\ v.verdict \in {"no_mz", "error", "bad_pe_offset", "bad_sig"}
               /\ \A f \in ModuleFiles : f.name # SafeName(modules[v.idx].name)
               /\ \A e \in Range(extracted_modules) : e.index # v.idx
    /\ Processed => Len(verdicts) = Len(modules)
    /\ pc # "raised"

\* a finished run that rejected a first module whose machine field does not
\* fit at its e_lfanew, and wrote the second module
C17_Witness ==
    /\ pc = "done"
    /\ Len(verdicts) = 2
    /\ HasMZ(verdicts[1].buf)
    /\ verdicts[1].verdict = "error"
    /\ Len(verdicts[1].buf) >= 64
    /\ verdicts[2].verdict = "ok"

Parsed == pc \notin {"idle", "start"} /\ ParseFailure(mdmp) = "none" /\ HasStream(mdmp, 4)

\* C18: the file offset of the i-th memory64 range, in stream order, is
\* base_rva plus the sizes of the ranges before it: the file extents follow
\* each other without gap or overlap, whatever the virtual addresses are.
C18_FileOffsetsAreRunningSums ==
    (Parsed /\ HasStream(mdmp, 9)) =>
        /\ Len(memory_ranges) = Len(mdmp.descs)
        /\ \A i \in DOMAIN memory_ranges :
               /\ memory_ranges[i].va = mdmp.descs[i].va
               /\ memory_ranges[i].size = mdmp.descs[i].size
               /\ memory_ranges[i].file_offset = mdmp.base_rva + SumSizes(mdmp.descs, i - 1)
        /\ \A i \in 1..(Len(memory_ranges) - 1) :
               memory_ranges[i + 1].file_offset =
                   memory_ranges[i].file_offset + memory_ranges[i].size
        /\ \A i, j \in DOMAIN memory_ranges :
               i < j => memory_ranges[i].file_offset + memory_ranges[i].size
                          <= memory_ranges[j].file_offset

\* three parsed ranges whose virtual addresses are not in stream order
C18_Witness ==
    /\ pc \notin {"idle", "start"}
    /\ Len(memory_ranges) = 3
    /\ memory_ranges[1].va > memory_ranges[2].va
    /\ memory_ranges[3].file_offset = mdmp.base_rva + memory_ranges[1].size
                                          + memory_ranges[2].size

\* the sorted ranges follow each other from the base of the module to its end
Tiles(sel, mod) ==
    /\ sel # <<>>
    /\ sel[1].va = mod.base
    /\ sel[Len(sel)].va + sel[Len(sel)].size = mod.base + mod.size
    /\ \A k \in 1..(Len(sel) - 1) : sel[k].va + sel[k].size = sel[k + 1].va
    /\ \A k \in DOMAIN sel : sel[k].size > 0

TiledModule(i) == Tiles(SortByVa(SelectRanges(memory_ranges, modules[i])), modules[i])

\* the memory of the module holds MZ, and PE\0\0 with the machine field at an
\* e_lfanew inside the module, clear of the DOS header fields
SoundImage(g, mod) ==
    /\ g.mz /\ g.sig
    /\ mod.size >= 64
    /\ g.lfanew \in (2..54) \cup (64..(mod.size - 6))

\* C19: a module whose selected ranges tile its interval exactly and whose
\* image has a valid MZ/PE header is emitted with bytes_filled equal to its
\* size, and its machine field decodes to i386 for 0x14C, AMD64 for 0x8664,
\* PowerPC for 0x1F0 and PowerPC BE for 0x1F2.
C19_TiledModuleFilledAndNamed ==
    /\ \A v \in Range(verdicts) :
           (v.verdict # "no_ranges" /\ TiledModule(v.idx)
               /\ SoundImage(mdmp.image, modules[v.idx])) =>
               /\ v.verdict = "ok"
               /\ v.filled = modules[v.idx].size
               /\ HasMZ(v.buf)
               /\ \E e \in Range(extracted_modules) : e.index = v.idx
    /\ \A e \in Range(extracted_modules) :
           TiledModule(e.index) =>
               /\ e.bytes_filled = modules[e.index].size
               /\ e.size = modules[e.index].size
               /\ (mdmp.image.machine = 498 => e.machine = "PowerPC BE")
               /\ (mdmp.image.machine = 332 => e.machine = "i386")
               /\ (mdmp.image.machine = 34404 => e.machine = "AMD64")
               /\ (mdmp.image.machine = 496 => e.machine = "PowerPC")

\* a PowerPC BE module rebuilt from three ranges that are not in address
\* order in the stream
C19_Witness ==
    /\ pc = "done"
    /\ Len(memory_ranges) = 3
    /\ memory_ranges[1].va > memory_ranges[2].va
    /\ \E e \in Range(extracted_modules) :
          /\ TiledModule(e.index)
          /\ Len(SelectRanges(memory_ranges, modules[e.index])) = 3
          /\ e.bytes_filled = 72
          /\ e.machine = "PowerPC BE"

\* the stream directory of the dump holds an entry of type t
HasType(t) == \E k \in DOMAIN mdmp.streams : mdmp.streams[k] = t

\* C24: of the stream directory only the entries of type 4 and 9 count, the
\* others change nothing; without a module list extract_modules returns an
\* empty list and writes nothing; without a memory64 list every module has
\* zero ranges and is skipped.
C24_OnlyModuleAndMemory64Streams ==
    (pc \notin {"idle", "start"} /\ ParseFailure(mdmp) = "none") =>
        /\ ~HasType(4) =>
               /\ pc = "done"
               /\ extracted_modules = <<>> /\ out_files = <<>> /\ verdicts = <<>>
        /\ HasType(4) => modules = mdmp.modules
        /\ (HasType(4) /\ ~HasType(9)) =>
               /\ memory_ranges = <<>>
               /\ \A v \in Range(verdicts) : v.verdict = "no_ranges"
               /\ extracted_modules = <<>> /\ ModuleFiles = {}
               /\ pc \in {"save", "done"} => Len(verdicts) = Len(modules)
        /\ (HasType(4) /\ HasType(9)) =>
               memory_ranges = AssignOffsets(mdmp.descs, 1, mdmp.base_rva)

\* a finished run over a dump with a module list, two foreign streams, no
\* memory64 list and memory after its header: the module was skipped
C24_Witness ==
    /\ pc = "done"
    /\ HasType(4) /\ HasType(5) /\ ~HasType(9)
    /\ mdmp.descs # <<>>
    /\ Len(verdicts) = 1 /\ verdicts[1].verdict = "no_ranges"
    /\ \E f \in Range(out_files) : f.name = "module_list.txt"

(***************************************************************************)
(* Coverage analyzer: src/analyze_coverage.py                              *)
(***************************************************************************)
MaxDump == 4
MaxEntries == 3

SampleSize == 64
LargerSampleSize == 4096
LargeRegionSize == 1048576

\* dump contents: all zero, one repeated non-zero byte, or mixed
DumpsOfSize(n) ==
    { [k \in 1..n |-> 0], [k \in 1..n |-> 65],
      [k \in 1..n |-> IF k % 2 = 1 THEN 0 ELSE 65] }

\* manifest entries inside a dump of n bytes (boundary safety of the carver)
EntriesIn(n) ==
    { e \in [file_type : {"dds"}, offset : 0..n, size_in_dump : 1..n, size_output : 1..n] :
        e.offset + e.size_in_dump <= n /\ e.size_output = e.size_in_dump }

\* line 162 and 216: sorted() and list.sort() on (offset, end_offset) pairs
Before(a, b) == a[1] < b[1] \/ (a[1] = b[1] /\ a[2] <= b[2])

RECURSIVE InsertPair(_, _)
InsertPair(p, s) ==
    IF s = <<>> THEN <<p>>
    ELSE IF Before(p, Head(s)) THEN <<p>> \o s
    ELSE <<Head(s)>> \o InsertPair(p, Tail(s))

RECURSIVE SortPairs(_)
SortPairs(s) ==
    IF s = <<>> THEN <<>> ELSE InsertPair(Head(s), SortPairs(Tail(s)))

\* line 162: sorted(matched_files, key=offset), stable
RECURSIVE InsertByOffset(_, _)
InsertByOffset(m, s) ==
    IF s = <<>> THEN <<m>>
    ELSE IF m.offset < Head(s).offset THEN <<m>> \o s
    ELSE <<Head(s)>> \o InsertByOffset(m, Tail(s))

RECURSIVE SortByOffset(_)
SortByOffset(s) ==
    IF s = <<>> THEN <<>>
    ELSE InsertByOffset(s[Len(s)], SortByOffset(SubSeq(s, 1, Len(s) - 1)))

\* lines 150-158
FileMatchOf(entry) ==
    [file_type |-> entry.file_type, offset |-> entry.offset, size |-> entry.size_in_dump,
     end_offset |-> entry.offset + entry.size_in_dump]

\* lines 211-213 and 295-297
CoverageMap(matched) == [k \in DOMAIN matched |-> <<matched[k].offset, matched[k].end_offset>>]

\* mutant: intervals that only touch are not merged
MergeStep_Strict(acc, p) ==
    IF acc # <<>> /\ p[1] < acc[Len(acc)][2]
    THEN [acc EXCEPT ![Len(acc)] = <<acc[Len(acc)][1], Max(acc[Len(acc)][2], p[2])>>]
    ELSE Append(acc, p)

\* lines 219-222 and 303-306: one step of the merge loop
MergeStep(acc, p) ==
    IF acc # <<>> /\ p[1] <= acc[Len(acc)][2]
    THEN [acc EXCEPT ![Len(acc)] = <<acc[Len(acc)][1], Max(acc[Len(acc)][2], p[2])>>]
    ELSE Append(acc, p)

RECURSIVE MergeFrom(_, _)
MergeFrom(acc, s) ==
    IF s = <<>> THEN acc ELSE MergeFrom(MergeStep(acc, Head(s)), Tail(s))

\* lines 216-222 and 300-306
Merge(coverage_map) == MergeFrom(<<>>, SortPairs(coverage_map))

\* lines 225-236: the gaps before each merged interval and after the last
RECURSIVE GapsFrom(_, _, _)
GapsFrom(regions, prev_end, s) ==
    IF s = <<>> THEN <<regions, prev_end>>
    ELSE LET start == Head(s)[1]
             end == Head(s)[2]
         IN  GapsFrom(IF start > prev_end
                      THEN Append(regions, [start |-> prev_end, end |-> start,
                                            size |-> start - prev_end])
                      ELSE regions,
                      Max(prev_end, end), Tail(s))

\* mutant: the region after the last match is not added
FindGaps_NoTail(mrg, dump_size) == GapsFrom(<<>>, 0, mrg)[1]

\* lines 225-236: the gaps, and the final region when the dump extends past
\* the last match
FindGaps(mrg, dump_size) ==
    LET g == GapsFrom(<<>>, 0, mrg)
    IN  IF g[2] < dump_size
        THEN Append(g[1], [start |-> g[2], end |-> dump_size, size |-> dump_size - g[2]])
        ELSE g[1]

AllEqual(bytes, b) == \A k \in DOMAIN bytes : bytes[k] = b

\* mutant: the loop runs to the end of the sample, range(4, len, 4), and
\* compares the short last window too
FourByteRepeat_ToTheEnd(sample) ==
    \A i \in { j \in 4..(Len(sample) - 1) : j % 4 = 0 } :
        Slice(sample, i, i + 4) = Slice(sample, 0, 4)

\* lines 280-289: every aligned 4-byte window of range(4, len - 3, 4) equals the first
FourByteRepeat(sample) ==
    \A i \in { j \in 4..(Len(sample) - 4) : j % 4 = 0 } :
        Slice(sample, i, i + 4) = Slice(sample, 0, 4)

\* mutant: the second read continues where the first one stopped (no seek back)
LargerSample_NoSeek(dump, region) ==
    Slice(dump, region.start + Min(SampleSize, region.size),
          region.start + Min(SampleSize, region.size) + Min(LargerSampleSize, region.size))

\* lines 266-267: seek back to the start of the region, read up to 4096 bytes
LargerSample(dump, region) ==
    Slice(dump, region.start, region.start + Min(LargerSampleSize, region.size))

\* mutant: the single-byte test is an `if` of its own, not an `elif` of the
\* zero test, so a zero sample is marked as a repeat as well
AnalyzeRegionContent_IfNotElif(dump, region) ==
    LET sample_size == Min(SampleSize, region.size)
        sample == Slice(dump, region.start, region.start + sample_size)
        larger == LargerSample(dump, region)
        base == [start |-> region.start, end |-> region.end, size |-> region.size,
                 sample |-> Slice(sample, 0, 32),
                 is_zeros |-> FALSE, is_repeating |-> FALSE, pattern_byte |-> -1]
        zeroed == IF AllEqual(sample, 0) /\ (region.size > sample_size => AllEqual(larger, 0))
                  THEN [base EXCEPT !.is_zeros = TRUE, !.pattern_byte = 0]
                  ELSE base
    IN  IF Len(sample) < 4 THEN base
        ELSE IF AllEqual(sample, sample[1])
        THEN [zeroed EXCEPT !.is_repeating = TRUE, !.pattern_byte = sample[1]]
        ELSE IF Len(sample) >= 8 /\ FourByteRepeat(sample)
        THEN [zeroed EXCEPT !.is_repeating = TRUE]
        ELSE zeroed

\* lines 249-289: _analyze_region_content
AnalyzeRegionContent(dump, region) ==
    LET sample_size == Min(SampleSize, region.size)
        sample == Slice(dump, region.start, region.start + sample_size)
        larger == LargerSample(dump, region)
        base == [start |-> region.start, end |-> region.end, size |-> region.size,
                 sample |-> Slice(sample, 0, 32),
                 is_zeros |-> FALSE, is_repeating |-> FALSE, pattern_byte |-> -1]
    IN  IF Len(sample) < 4 THEN base
        ELSE IF AllEqual(sample, 0)
        THEN IF region.size > sample_size
             THEN IF AllEqual(larger, 0)
                  THEN [base EXCEPT !.is_zeros = TRUE, !.pattern_byte = 0]
                  ELSE base
             ELSE [base EXCEPT !.is_zeros = TRUE, !.pattern_byte = 0]
        ELSE IF AllEqual(sample, sample[1])
        THEN [base EXCEPT !.is_repeating = TRUE, !.pattern_byte = sample[1]]
        ELSE IF Len(sample) >= 8 /\ FourByteRepeat(sample)
        THEN [base EXCEPT !.is_repeating = TRUE]
        ELSE base

\* sum(...) over a list
RECURSIVE SumSeq(_)
SumSeq(s) == IF s = <<>> THEN 0 ELSE Head(s) + SumSeq(Tail(s))

\* the widths of a list of (start, end) pairs, the sizes of a list of regions
Widths(s) == [k \in DOMAIN s |-> s[k][2] - s[k][1]]
Sizes(s) == [k \in DOMAIN s |-> s[k].size]

\* line 108: a fresh CoverageReport
EmptyReport(dump_size) ==
    [dump_size |-> dump_size, identified_bytes |-> 0, total_carved_bytes |-> 0,
     unknown_bytes |-> 0, coverage_percent |-> <<0, 1>>,
     files_by_type |-> <<>>, bytes_by_type |-> <<>>, matched_files |-> <<>>,
     unknown_regions |-> <<>>, large_unknown_regions |-> <<>>,
     zero_regions_bytes |-> 0, repeating_pattern_bytes |-> 0]

Reverse(s) == [k \in DOMAIN s |-> s[Len(s) + 1 - k]]

\* the manifests of a dump of n bytes: in ascending offset order as the engine
\* emits them, and the same lists reversed
ManifestsIn(n) ==
    LET asc == { m \in SeqsUpTo(EntriesIn(n), MaxEntries) :
                   \A k \in 1..(Len(m) - 1) : m[k].offset <= m[k + 1].offset }
    IN  asc \cup { Reverse(m) : m \in asc }

CInit ==
    /\ cov_pc = "collect"
    /\ \E n \in 0..MaxDump :
          /\ dump_bytes \in DumpsOfSize(n)
          /\ carver_manifest \in ManifestsIn(n)
          /\ report = EmptyReport(n)
    /\ merged = <<>>

CIdle ==
    /\ cov_pc = "idle"
    /\ dump_bytes = <<>>
    /\ carver_manifest = <<>>
    /\ report = <<>>
    /\ merged = <<>>

(***************************************************************************)
(* Dumps large enough for the 64-byte and the 4096-byte sample to matter:  *)
(* a fill byte, at most one byte that differs from it, a few fixed records *)
(***************************************************************************)
BigDump == 4200

LargeSizes == {SampleSize, SampleSize + 1, 300, BigDump}

Spots == {0, 20, 100, 205, LargerSampleSize + 21, LargerSampleSize + 80}

FourBytePattern(n) == [k \in 1..n |-> 1 + ((k - 1) % 4)]

\* sizes around the 4 and 8 bytes the pattern checks ask for, multiples of 4
\* and not
MidSizes == {4, 5, 7, 8, 9, 11, 12}

\* zeros up to offset 200, then 50 bytes of 0x41, then bytes with no pattern
MixedContent(n) ==
    [k \in 1..n |-> IF k <= 200 THEN 0 ELSE IF k <= 250 THEN 65 ELSE 1 + (k % 5)]

LargeDumps(n) ==
    { [k \in 1..n |-> IF k - 1 = spot THEN 66 ELSE fill] :
        fill \in {0, 65}, spot \in {-1} \cup { q \in Spots : q < n } }
    \cup {FourBytePattern(n)}
    \cup {MixedContent(n)}
    \cup { [k \in 1..n |-> IF k - 1 = spot THEN 66 ELSE FourBytePattern(n)[k]] :
             spot \in { q \in {5, 8, 10} : q < n } }

LargeEntries(n) ==
    { e \in { [file_type |-> "dds", offset |-> o, size_in_dump |-> 16, size_output |-> 16] :
                o \in {0, 200, 250, n - 16} } :
        e.offset >= 0 /\ e.offset + e.size_in_dump <= n /\ n >= 300 }

LargeManifests(n) ==
    { m \in SeqsUpTo(LargeEntries(n), 2) :
        \A k \in 1..(Len(m) - 1) : m[k].offset < m[k + 1].offset }

CInitLarge ==
    /\ cov_pc = "collect"
    /\ \E n \in LargeSizes \cup MidSizes :
          /\ dump_bytes \in LargeDumps(n)
          /\ carver_manifest \in LargeManifests(n)
          /\ report = EmptyReport(n)
    /\ merged = <<>>

\* lines 136-163: _collect_carved_files_from_manifest
CollectCarvedFiles ==
    /\ cov_pc = "collect"
    /\ LET types == { carver_manifest[k].file_type : k \in DOMAIN carver_manifest }
           OfType(t) == SelectSeq(carver_manifest, LAMBDA e : e.file_type = t)
           InDump(es) == [k \in DOMAIN es |-> es[k].size_in_dump]
           Output(es) == [k \in DOMAIN es |-> es[k].size_output]
       IN  report' = [report EXCEPT
               !.files_by_type = [t \in types |-> Len(OfType(t))],
               !.bytes_by_type = [t \in types |-> SumSeq(InDump(OfType(t)))],
               !.matched_files =
                   SortByOffset([k \in DOMAIN carver_manifest |->
                                    FileMatchOf(carver_manifest[k])]),
               !.total_carved_bytes = SumSeq(Output(carver_manifest))]
    /\ cov_pc' = "unknown"
    /\ UNCHANGED <<dump_bytes, carver_manifest, merged>>
    /\ UNCHANGED NotCoverage

\* lines 208-247: _analyze_unknown_regions
AnalyzeUnknownRegions ==
    /\ cov_pc = "unknown"
    /\ LET mrg == Merge(CoverageMap(report.matched_files))
           gaps == FindGaps(mrg, report.dump_size)
           regions == [k \in DOMAIN gaps |-> AnalyzeRegionContent(dump_bytes, gaps[k])]
           zeros == SelectSeq(regions, LAMBDA r : r.is_zeros)
           repeating == SelectSeq(regions, LAMBDA r : r.is_repeating)
       IN  /\ merged' = mrg
           /\ report' = [report EXCEPT
                  !.unknown_regions = regions,
                  !.large_unknown_regions =
                      SelectSeq(regions, LAMBDA r : r.size >= LargeRegionSize),
                  !.unknown_bytes = SumSeq(Sizes(regions)),
                  !.zero_regions_bytes = SumSeq(Sizes(zeros)),
                  !.repeating_pattern_bytes = SumSeq(Sizes(repeating))]
    /\ cov_pc' = "statistics"
    /\ UNCHANGED <<dump_bytes, carver_manifest>>
    /\ UNCHANGED NotCoverage

\* mutant: the widths are summed without merging
UniqueIdentified_RawSum(matched) == SumSeq(Widths(CoverageMap(matched)))

\* the unique covered bytes of lines 295-309
UniqueIdentified(matched) == SumSeq(Widths(Merge(CoverageMap(matched))))

\* lines 291-312: _calculate_statistics
CalculateStatistics ==
    /\ cov_pc = "statistics"
    /\ IF report.dump_size > 0
       THEN report' = [report EXCEPT
                !.identified_bytes = UniqueIdentified(report.matched_files),
                !.unknown_bytes = report.dump_size - UniqueIdentified(report.matched_files),
                !.coverage_percent =
                    <<UniqueIdentified(report.matched_files) * 100, report.dump_size>>]
       ELSE UNCHANGED report
    /\ cov_pc' = "done"
    /\ UNCHANGED <<dump_bytes, carver_manifest, merged>>
    /\ UNCHANGED NotCoverage

CNext == CollectCarvedFiles \/ AnalyzeUnknownRegions \/ CalculateStatistics

(***************************************************************************)
(* Carving engine: src/carver.py is not in the source tree; modelled from  *)
(* the specification (sections 3, 4.1 and 4.2).                            *)
(***************************************************************************)
MaxCarveDump == 11
MaxSignatures == 3

\* A descriptor of the registry with a declared size: the magic, then the
\* payload length in the next byte (section 4.1, container formats).
Descriptor == [name |-> "riff", magic |-> <<82, 73>>, header_bytes |-> 3,
               min_size |-> 3, max_size |-> 8]

\* section 4.2: overlap window = maximum magic length + longest expected header
Overlap == Len(Descriptor.magic) + Descriptor.header_bytes

ChunkSizes == {Overlap, Overlap + 1, MaxCarveDump}

\* a dump of n zero bytes with signatures placed by at (offset -> declared size)
PlaceAll(n, at) ==
    [k \in 1..n |->
        LET o == k - 1
        IN  IF o \in DOMAIN at THEN Descriptor.magic[1]
            ELSE IF (o - 1) \in DOMAIN at THEN Descriptor.magic[2]
            ELSE IF (o - 2) \in DOMAIN at THEN at[o - 2]
            ELSE 0]

CarveDumps(n, sigs) ==
    { PlaceAll(n, at) :
        at \in UNION { [os -> {Descriptor.min_size, Descriptor.max_size}] :
                         os \in { x \in SUBSET (0..(n - 1)) :
                                    Cardinality(x) <= sigs } } }

\* the magic occurs at absolute offset o, inside data that ends at limit
MagicAt(dump, o, limit) ==
    /\ o + Len(Descriptor.magic) <= limit
    /\ \A j \in 1..Len(Descriptor.magic) : dump[o + j] = Descriptor.magic[j]

\* mutant: the declared size is not checked against the end of the dump
SizeFinder_Unbounded(dump, o) ==
    IF o + Descriptor.header_bytes > Len(dump) THEN <<>>
    ELSE LET size == Min(dump[o + Descriptor.header_bytes], Descriptor.max_size)
         IN  IF size < Descriptor.min_size THEN <<>>
             ELSE <<[file_type |-> Descriptor.name, offset |-> o,
                     size_in_dump |-> size, size_output |-> size]>>

\* section 4.1: read the declared size, clamp to max_size; None (<<>>) when the
\* header is cut, the size is below min_size or the end is past the dump
SizeFinder(dump, o) ==
    IF o + Descriptor.header_bytes > Len(dump) THEN <<>>
    ELSE LET size == Min(dump[o + Descriptor.header_bytes], Descriptor.max_size)
         IN  IF size < Descriptor.min_size \/ o + size > Len(dump) THEN <<>>
             ELSE <<[file_type |-> Descriptor.name, offset |-> o,
                     size_in_dump |-> size, size_output |-> size]>>

\* mutant: chunks are read without the overlap window
ChunkEnd_NoOverlap(pos, csize, n) == Min(pos + csize, n)

\* section 4.2: the bytes a chunk starting at pos reads: chunk_size + overlap
ChunkEnd(pos, csize, n) == Min(pos + csize + Overlap, n)

\* section 4.2: the engine deduplicates by absolute offset
Fresh(o, handled) == o \notin handled

\* the records of the magic occurrences in [lo, limit), ascending, not yet seen
RECURSIVE ScanFrom(_, _, _, _)
ScanFrom(dump, lo, limit, handled) ==
    IF lo >= limit THEN <<>>
    ELSE (IF MagicAt(dump, lo, limit) /\ Fresh(lo, handled)
          THEN SizeFinder(dump, lo) ELSE <<>>)
         \o ScanFrom(dump, lo + 1, limit, handled)

\* section 4.2, overlap resolution: sort by offset, then larger first
RecBefore(a, b) ==
    a.offset < b.offset \/ (a.offset = b.offset /\ a.size_in_dump >= b.size_in_dump)

RECURSIVE InsertRec(_, _)
InsertRec(r, s) ==
    IF s = <<>> THEN <<r>>
    ELSE IF RecBefore(r, Head(s)) THEN <<r>> \o s
    ELSE <<Head(s)>> \o InsertRec(r, Tail(s))

RECURSIVE SortRecs(_)
SortRecs(s) == IF s = <<>> THEN <<>> ELSE InsertRec(Head(s), SortRecs(Tail(s)))

\* mutant: only records strictly inside on both sides are dropped
Contains_Strict(a, b) ==
    a.offset < b.offset /\ b.offset + b.size_in_dump < a.offset + a.size_in_dump

\* a's extent contains b's extent
Contains(a, b) ==
    a.offset <= b.offset /\ b.offset + b.size_in_dump <= a.offset + a.size_in_dump

\* drop every record fully contained in the previous accepted record
RECURSIVE DropContained(_, _)
DropContained(acc, s) ==
    IF s = <<>> THEN acc
    ELSE IF acc # <<>> /\ Contains(acc[Len(acc)], Head(s))
    THEN DropContained(acc, Tail(s))
    ELSE DropContained(Append(acc, Head(s)), Tail(s))

ResolveRecords(recs) == DropContained(<<>>, SortRecs(recs))

KInit ==
    /\ carve_pc = "scan"
    /\ carve_dump \in CarveDumps(MaxCarveDump, MaxSignatures)
    /\ chunk_size \in ChunkSizes
    /\ position = 0
    /\ seen = {}
    /\ candidates = <<>>
    /\ resolved = <<>>
    /\ wi = 0
    /\ manifest = <<>>
    /\ carved_files = {}

KIdle ==
    /\ carve_pc = "idle"
    /\ carve_dump = <<>>
    /\ chunk_size = 0
    /\ position = 0
    /\ seen = {}
    /\ candidates = <<>>
    /\ resolved = <<>>
    /\ wi = 0
    /\ manifest = <<>>
    /\ carved_files = {}

\* section 4.2: read one chunk with its overlap window, emit its match records
ScanChunk ==
    /\ carve_pc = "scan"
    /\ position < Len(carve_dump)
    /\ LET limit == ChunkEnd(position, chunk_size, Len(carve_dump))
       IN  /\ candidates' = candidates \o ScanFrom(carve_dump, position, limit, seen)
           /\ seen' = seen \cup { o \in position..(limit - 1) :
                                    MagicAt(carve_dump, o, limit) }
    /\ position' = position + chunk_size
    /\ UNCHANGED <<carve_pc, carve_dump, chunk_size, resolved, wi, manifest, carved_files>>
    /\ UNCHANGED NotCarve

\* section 4.2: after all chunks are processed, overlap resolution
ResolveOverlaps ==
    /\ carve_pc = "scan"
    /\ position >= Len(carve_dump)
    /\ resolved' = ResolveRecords(candidates)
    /\ wi' = 1
    /\ carve_pc' = "write"
    /\ UNCHANGED <<carve_dump, chunk_size, position, seen, candidates, manifest,
                   carved_files>>
    /\ UNCHANGED NotCarve

\* mutant: the record is entered in the manifest before its file is written
Recorded_BeforeWrite(mf, rec, ok) == Append(mf, rec)

\* section 7, OutputError: the manifest after the write of rec succeeded or failed
Recorded(mf, rec, ok) == IF ok THEN Append(mf, rec) ELSE mf

\* section 4.2 and 7: write the payload; on an I/O error the record is omitted
WriteRecord ==
    /\ carve_pc = "write"
    /\ wi <= Len(resolved)
    /\ \E ok \in BOOLEAN :
          /\ manifest' = Recorded(manifest, resolved[wi], ok)
          /\ carved_files' = IF ok THEN carved_files \cup {resolved[wi].offset}
                                    ELSE carved_files
    /\ wi' = wi + 1
    /\ UNCHANGED <<carve_pc, carve_dump, chunk_size, position, seen, candidates, resolved>>
    /\ UNCHANGED NotCarve

\* the manifest is persisted and carve_dump returns
FinishCarve ==
    /\ carve_pc = "write"
    /\ wi > Len(resolved)
    /\ carve_pc' = "done"
    /\ UNCHANGED <<carve_dump, chunk_size, position, seen, candidates, resolved, wi,
                   manifest, carved_files>>
    /\ UNCHANGED NotCarve

KNext == ScanChunk \/ ResolveOverlaps \/ WriteRecord \/ FinishCarve

(***************************************************************************)
(* Properties of the coverage analyzer                                     *)
(***************************************************************************)
BytesOf(lo, hi) == lo..(hi - 1)

\* the dump bytes inside the extent of some manifest record
CoveredBytes ==
    { b \in BytesOf(0, report.dump_size) :
        \E k \in DOMAIN carver_manifest :
            /\ carver_manifest[k].offset <= b
            /\ b < carver_manifest[k].offset + carver_manifest[k].size_in_dump }

MergedBytes == UNION { BytesOf(merged[k][1], merged[k][2]) : k \in DOMAIN merged }

GapBytes ==
    UNION { BytesOf(report.unknown_regions[k].start, report.unknown_regions[k].end) :
              k \in DOMAIN report.unknown_regions }

Analysed == cov_pc \in {"statistics", "done"}

\* C6: the merged intervals are sorted, pairwise disjoint and minimal (no two
\* overlap or touch), the gaps are pairwise disjoint and disjoint from the
\* merged intervals, and merged intervals plus gaps are exactly [0, dump_size).
C6_MergedAndGapsPartitionDump ==
    Analysed =>
        LET gaps == report.unknown_regions
        IN  /\ \A k \in DOMAIN merged : merged[k][1] < merged[k][2]
            /\ \A k \in 1..(Len(merged) - 1) : merged[k][2] < merged[k + 1][1]
            /\ MergedBytes = CoveredBytes
            /\ \A k \in DOMAIN gaps :
                   gaps[k].start < gaps[k].end /\ gaps[k].size = gaps[k].end - gaps[k].start
            /\ \A j, k \in DOMAIN gaps :
                   j # k => BytesOf(gaps[j].start, gaps[j].end) \cap
                            BytesOf(gaps[k].start, gaps[k].end) = {}
            /\ GapBytes \cap MergedBytes = {}
            /\ GapBytes \cup MergedBytes = BytesOf(0, report.dump_size)

\* an analysed manifest with touching records, overlapping records and a gap
C6_Witness ==
    /\ Analysed
    /\ Len(report.unknown_regions) >= 1
    /\ \E j, k \in DOMAIN carver_manifest :
           carver_manifest[j].offset + carver_manifest[j].size_in_dump =
               carver_manifest[k].offset
    /\ \E j, k \in DOMAIN carver_manifest :
           /\ carver_manifest[j].offset < carver_manifest[k].offset
           /\ carver_manifest[k].offset <
                  carver_manifest[j].offset + carver_manifest[j].size_in_dump

\* C7: after analyze_dump identified_bytes + unknown_bytes = dump_size, and
\* identified_bytes counts every byte covered by a manifest record once.
C7_CoverageIdentity ==
    cov_pc = "done" =>
        /\ report.identified_bytes + report.unknown_bytes = report.dump_size
        /\ report.identified_bytes = Cardinality(CoveredBytes)

\* a finished analysis of a manifest with two overlapping records
C7_Witness ==
    /\ cov_pc = "done"
    /\ report.identified_bytes > 0
    /\ report.unknown_bytes > 0
    /\ \E j, k \in DOMAIN carver_manifest :
           /\ j # k
           /\ carver_manifest[j].offset <= carver_manifest[k].offset
           /\ carver_manifest[k].offset <
                  carver_manifest[j].offset + carver_manifest[j].size_in_dump

RegionBytes(r) == Slice(dump_bytes, r.start, r.end)

\* C11: a gap of at least 64 bytes that are all 0x00 is classified as zeros:
\* is_zeros is set and the pattern byte is 0.
C11_ZeroGapIsZeros ==
    Analysed =>
        \A k \in DOMAIN report.unknown_regions :
            LET r == report.unknown_regions[k]
            IN  (r.size >= SampleSize /\ AllEqual(RegionBytes(r), 0))
                    => (r.is_zeros /\ r.pattern_byte = 0 /\ ~r.is_repeating)

\* an analysed all-zero gap longer than the first sample, followed by carved
\* data that is not zero, and classified as zeros
C11_Witness ==
    /\ Analysed
    /\ \E k \in DOMAIN report.unknown_regions :
          LET r == report.unknown_regions[k]
          IN  /\ r.size > SampleSize
              /\ AllEqual(RegionBytes(r), 0)
              /\ r.end < Len(dump_bytes)
              /\ \E q \in (r.end + 1)..Min(Len(dump_bytes), r.end + SampleSize) :
                     dump_bytes[q] # 0
              /\ r.is_zeros

\* C12: a gap made of N >= 1 copies of one non-zero byte b is classified as
\* repeat_byte(b): is_repeating is set and the pattern byte is b.
C12_RepeatByteGapIsRepeating ==
    Analysed =>
        \A k \in DOMAIN report.unknown_regions :
            LET r == report.unknown_regions[k]
                b == dump_bytes[r.start + 1]
            IN  (b # 0 /\ AllEqual(RegionBytes(r), b))
                    => (r.is_repeating /\ r.pattern_byte = b)

\* C25: for every manifest inside the dump, the unknown bytes summed over the
\* listed gaps equal dump_size minus the bytes some record covers, which is
\* what _calculate_statistics stores afterwards: the two computations agree,
\* and the coverage percentage lies between 0 and 100.
C25_UnknownBytesAgree ==
    /\ cov_pc = "statistics" =>
           /\ report.unknown_bytes = SumSeq(Sizes(report.unknown_regions))
           /\ report.unknown_bytes = report.dump_size - Cardinality(CoveredBytes)
    /\ cov_pc = "done" =>
           /\ report.unknown_bytes = SumSeq(Sizes(report.unknown_regions))
           /\ report.unknown_bytes = report.dump_size - report.identified_bytes
           /\ 0 <= report.coverage_percent[1]
           /\ report.coverage_percent[1] <= 100 * report.coverage_percent[2]

\* a finished analysis with a gap before the first record and a gap after the
\* last, over records that overlap
C25_Witness ==
    /\ cov_pc = "done"
    /\ Len(report.unknown_regions) = 2
    /\ report.unknown_regions[2].end = report.dump_size
    /\ report.total_carved_bytes > report.identified_bytes
    /\ report.unknown_bytes = 2

\* line 336 of generate_report: the "Actual unknown" figure
ActualUnknown(r) == r.unknown_bytes - r.zero_regions_bytes - r.repeating_pattern_bytes

\* C26: no gap region is marked both is_zeros and is_repeating, so in every
\* report the zero-filled and the repeating bytes together do not exceed the
\* unknown bytes, and the "Actual unknown" figure is never negative.
C26_ZerosAndRepeatingExclusive ==
    Analysed =>
        /\ \A k \in DOMAIN report.unknown_regions :
               ~(report.unknown_regions[k].is_zeros /\ report.unknown_regions[k].is_repeating)
        /\ report.zero_regions_bytes + report.repeating_pattern_bytes <= report.unknown_bytes
        /\ ActualUnknown(report) >= 0

\* a finished report with a zero-filled gap, a repeating gap and a gap that is
\* neither
C26_Witness ==
    /\ cov_pc = "done"
    /\ report.zero_regions_bytes > 0
    /\ report.repeating_pattern_bytes > 0
    /\ ActualUnknown(report) > 0

\* the bytes _analyze_region_content samples: the first min(64, size)
SampleOf(r) == Slice(dump_bytes, r.start, r.start + Min(SampleSize, r.size))

\* C22: a gap whose sampled bytes all equal one byte value b is classified as
\* a single-byte repeat of b unless it is classified as zeros; a gap whose
\* first 64 bytes are 0x00 and whose first 4 KiB hold a non-zero byte is not
\* left unclassified.
C22_ConstantSampleIsClassified ==
    Analysed =>
        \A k \in DOMAIN report.unknown_regions :
            LET r == report.unknown_regions[k]
                b == SampleOf(r)[1]
            IN  AllEqual(SampleOf(r), b)
                    => (r.is_zeros \/ (r.is_repeating /\ r.pattern_byte = b))

\* every aligned window of 4 bytes that lies inside the sample equals the
\* first 4 bytes
AlignedWindowsEqual(sample) ==
    \A i \in 0..(Len(sample) - 4) :
        i % 4 = 0 => \A j \in 1..4 : sample[i + j] = sample[j]

\* the region is classified as a repeat of 4 bytes (no pattern byte is set)
FourByteClass(r) == r.is_repeating /\ r.pattern_byte = -1

\* C23 as stated: a gap that is neither zeros nor a single-byte repeat is a
\* 4-byte repeat iff every aligned 4-byte window of its sample equals the first
\* 4 bytes, for every sample of at least 4 bytes, lengths 4 to 7 included.
C23_FourByteRepeatFromFourBytes ==
    Analysed =>
        \A k \in DOMAIN report.unknown_regions :
            LET r == report.unknown_regions[k]
            IN  (Len(SampleOf(r)) >= 4 /\ ~AllEqual(SampleOf(r), SampleOf(r)[1]))
                    => (FourByteClass(r) <=> AlignedWindowsEqual(SampleOf(r)))

\* C23 amended: a gap whose sample holds more than one byte value is
\* classified as a 4-byte repeat iff the sample has at least 8 bytes and every
\* aligned 4-byte window inside it equals the first 4 bytes; bytes after the
\* last whole window do not count, and such a gap is never zeros.
C23_FourByteRepeatFromEightBytes ==
    Analysed =>
        \A k \in DOMAIN report.unknown_regions :
            LET r == report.unknown_regions[k]
            IN  (SampleOf(r) # <<>> /\ ~AllEqual(SampleOf(r), SampleOf(r)[1]))
                    => /\ FourByteClass(r) <=>
                             (Len(SampleOf(r)) >= 8 /\ AlignedWindowsEqual(SampleOf(r)))
                       /\ ~r.is_zeros
                       /\ r.is_repeating => FourByteClass(r)

\* an analysed gap of 9 or 11 bytes, two whole windows that agree and a tail
\* that breaks the pattern, classified as a 4-byte repeat
C23_Witness ==
    /\ Analysed
    /\ \E k \in DOMAIN report.unknown_regions :
          LET r == report.unknown_regions[k]
          IN  /\ r.size \in {9, 11}
              /\ FourByteClass(r)
              /\ dump_bytes[r.start + 9] # dump_bytes[r.start + 1]

(***************************************************************************)
(* Properties of the carving engine                                        *)
(***************************************************************************)
\* the extent of b lies inside the extent of a
Within(a, b) ==
    a.offset <= b.offset /\ b.offset + b.size_in_dump <= a.offset + a.size_in_dump

Resolved == carve_pc \in {"write", "done"}

\* C8: after overlap resolution no kept record lies inside the extent of any
\* other kept record, and a record is dropped only if it lies inside another
\* one (records that touch or partially overlap are kept).
C8_NoContainedRecords ==
    Resolved =>
        /\ \A j, k \in DOMAIN resolved : j # k => ~Within(resolved[j], resolved[k])
        /\ \A j, k \in DOMAIN manifest : j # k => ~Within(manifest[j], manifest[k])
        /\ \A c \in Range(candidates) :
               (\A d \in Range(candidates) : d # c => ~Within(d, c))
                   => c \in Range(resolved)

\* a resolution that dropped a nested record and kept two overlapping ones
C8_Witness ==
    /\ Resolved
    /\ Len(resolved) < Len(candidates)
    /\ \E j, k \in DOMAIN resolved :
           /\ resolved[j].offset < resolved[k].offset
           /\ resolved[k].offset <= resolved[j].offset + resolved[j].size_in_dump

\* C9: the manifest is in ascending offset order and every entry lies inside
\* the dump, also when a signature sits at the very end of the dump.
C9_ManifestSortedInBounds ==
    /\ \A k \in 1..(Len(manifest) - 1) : manifest[k].offset <= manifest[k + 1].offset
    /\ \A k \in DOMAIN manifest :
           /\ manifest[k].offset >= 0
           /\ manifest[k].offset + manifest[k].size_in_dump <= Len(carve_dump)

\* a finished run over a dump that ends with a bare magic
C9_Witness ==
    /\ carve_pc = "done"
    /\ Len(manifest) >= 2
    /\ MagicAt(carve_dump, Len(carve_dump) - Len(Descriptor.magic), Len(carve_dump))

\* the accepted matches of one pass over the whole dump, in ascending offset
RECURSIVE AllMatches(_, _)
AllMatches(dump, o) ==
    IF o >= Len(dump) THEN <<>>
    ELSE (IF MagicAt(dump, o, Len(dump)) THEN SizeFinder(dump, o) ELSE <<>>)
         \o AllMatches(dump, o + 1)

\* C10: for every chunk size >= the overlap window the chunked scan accepts
\* the same ordered sequence of matches as one pass over the whole dump, each
\* signature once.
C10_ChunkSizeIndependent ==
    (carve_pc # "scan" \/ position >= Len(carve_dump)) =>
        candidates = AllMatches(carve_dump, 0)

\* a chunked scan with a signature across the first chunk boundary and one
\* inside the overlap window
C10_Witness ==
    /\ carve_pc = "done"
    /\ chunk_size < Len(carve_dump)
    /\ \E c \in Range(candidates) : c.offset = chunk_size - 1
    /\ \E c \in Range(candidates) :
           chunk_size <= c.offset /\ c.offset < chunk_size + Overlap - 1

\* C21: at every point of a carving run, whatever writes failed, the manifest
\* entries and the output files written correspond one to one: every entry
\* has its file, every file its entry, no entry twice; and the run goes
\* through every resolved record, a failed write ending nothing.
C21_ManifestMatchesWrittenFiles ==
    /\ { manifest[k].offset : k \in DOMAIN manifest } = carved_files
    /\ Cardinality(carved_files) = Len(manifest)
    /\ \A k \in DOMAIN manifest :
           \E j \in 1..Min(wi - 1, Len(resolved)) : manifest[k] = resolved[j]
    /\ carve_pc = "done" => wi = Len(resolved) + 1

\* a finished run whose first write failed and whose later writes succeeded,
\* followed by another failure
C21_Witness ==
    /\ carve_pc = "done"
    /\ Len(resolved) = 3
    /\ manifest = <<resolved[2]>>
    /\ carved_files = {resolved[2].offset}

(***************************************************************************)
(* main.py: the command line driver, a batch of dumps                      *)
(***************************************************************************)
MaxBatch == 2

GoodMdmp ==
    [magic_ok |-> TRUE, truncated |-> "none", streams |-> <<4, 9>>, modules |-> <<ModA>>,
     descs |-> <<[va |-> 16, size |-> 72]>>, base_rva |-> 32, image |-> GoodImage,
     payload |-> Payload(<<[va |-> 16, size |-> 72]>>, GoodImage)]

BadMagicMdmp == [GoodMdmp EXCEPT !.magic_ok = FALSE]

BadMdmps ==
    {BadMagicMdmp} \cup { [GoodMdmp EXCEPT !.truncated = t] : t \in Truncations \ {"none"} }

\* a dump named on the command line: whether the file exists, what it holds as
\* a minidump, and how carve_dump ends on it
BatchDumps ==
    { [exists |-> TRUE, mdmp |-> GoodMdmp, carve |-> c] : c \in {"ok", "error", "interrupt"} }
    \cup { [exists |-> TRUE, mdmp |-> b, carve |-> "ok"] : b \in BadMdmps }
    \cup { [exists |-> TRUE, mdmp |-> BadMagicMdmp, carve |-> "error"],
           [exists |-> FALSE, mdmp |-> GoodMdmp, carve |-> "ok"] }

\* exit status of an interpreter that ends on an uncaught KeyboardInterrupt
\* (main never returns a code then): death by SIGINT, which a shell reports as
\* 130, or another status (1 with a traceback before Python 3.8)
UncaughtInterruptStatus == {130, 1}

MInit ==
    /\ main_pc = "start"
    /\ args \in { a \in [dumps : SeqsUpTo(BatchDumps, MaxBatch),
                          extract_modules : BOOLEAN, check_integrity : BOOLEAN,
                          integrity_error : BOOLEAN] :
                     a.integrity_error => a.check_integrity }
    /\ di = 0
    /\ module_results = <<>>
    /\ carve_log = <<>>
    /\ integrity_run = "none"
    /\ exit_code = -1

MIdle ==
    /\ main_pc = "idle"
    /\ args = <<>>
    /\ di = 0
    /\ module_results = <<>>
    /\ carve_log = <<>>
    /\ integrity_run = "none"
    /\ exit_code = -1

\* lines 100-126: the dumps to process, their validation, the carver
MainStart ==
    /\ main_pc = "start"
    /\ IF args.dumps = <<>> \/ \E k \in DOMAIN args.dumps : ~args.dumps[k].exists
       THEN /\ main_pc' = "exit"
            /\ exit_code' = 1
            /\ UNCHANGED di
       ELSE /\ main_pc' = IF args.extract_modules THEN "extract" ELSE "carve"
            /\ di' = 1
            /\ UNCHANGED exit_code
    /\ UNCHANGED <<args, module_results, carve_log, integrity_run>>
    /\ UNCHANGED <<xvars, NotMain>>

\* after the dump di of the extraction loop: the next dump or the carving loop
AfterExtract == IF di + 1 > Len(args.dumps) THEN "carve" ELSE "extract"

\* lines 131-136: a new MinidumpExtractor (it creates the output directory),
\* then the call of extract_modules
StartExtract ==
    /\ main_pc = "extract"
    /\ \E mkdir_ok \in BOOLEAN :
          IF mkdir_ok
          THEN /\ mdmp' = args.dumps[di].mdmp
               /\ pc' = "start"
               /\ main_pc' = "extracting"
               /\ UNCHANGED <<di, module_results, exit_code>>
          ELSE /\ IF CaughtByExcept("OSError")
                  THEN /\ main_pc' = AfterExtract
                       /\ di' = IF AfterExtract = "carve" THEN 1 ELSE di + 1
                       /\ UNCHANGED exit_code
                  ELSE /\ main_pc' = "exit"
                       /\ exit_code' = 1
                       /\ UNCHANGED di
               /\ module_results' = Append(module_results,
                      [dump |-> di, outcome |-> "error", modules |-> <<>>, files |-> <<>>])
               /\ UNCHANGED <<mdmp, pc>>
    /\ UNCHANGED <<args, carve_log, integrity_run>>
    /\ UNCHANGED <<modules, memory_ranges, idx, module_ranges, ri, module_data,
                   bytes_filled, extracted_modules, out_files, copies, verdicts>>
    /\ UNCHANGED NotMain

\* lines 136-143: extract_modules is back, with its list or with an exception
FinishExtract ==
    /\ main_pc = "extracting"
    /\ pc \in {"done", "raised"}
    /\ module_results' = Append(module_results,
           [dump |-> di, outcome |-> IF pc = "done" THEN "returned" ELSE "error",
            modules |-> extracted_modules, files |-> out_files])
    /\ IF pc = "raised" /\ ~CaughtByExcept(ParseFailure(mdmp))
       THEN /\ main_pc' = "exit"
            /\ exit_code' = 1
            /\ UNCHANGED di
       ELSE /\ main_pc' = AfterExtract
            /\ di' = IF AfterExtract = "carve" THEN 1 ELSE di + 1
            /\ UNCHANGED exit_code
    /\ mdmp' = <<>>
    /\ pc' = "idle"
    /\ modules' = <<>>
    /\ memory_ranges' = <<>>
    /\ idx' = 0
    /\ module_ranges' = <<>>
    /\ ri' = 0
    /\ module_data' = <<>>
    /\ bytes_filled' = 0
    /\ extracted_modules' = <<>>
    /\ out_files' = <<>>
    /\ copies' = <<>>
    /\ verdicts' = <<>>
    /\ UNCHANGED <<args, carve_log, integrity_run>>
    /\ UNCHANGED NotMain

\* lines 131-143: Ctrl-C while modules are extracted. KeyboardInterrupt is not
\* an Exception: neither handler catches it and it leaves main
InterruptExtract ==
    /\ main_pc = "extracting"
    /\ module_results' = Append(module_results,
           [dump |-> di, outcome |-> "interrupt", modules |-> extracted_modules,
            files |-> out_files])
    /\ main_pc' = "exit"
    /\ exit_code' \in UncaughtInterruptStatus
    /\ UNCHANGED <<args, di, carve_log, integrity_run>>
    /\ UNCHANGED <<xvars, NotMain>>

\* mutant: the handler leaves the loop (break) where the code goes on (continue)
NextAfterCarveError_Break(d, n) == n + 1

\* lines 153-155: the dump the carving loop turns to after an error on dump d of n
NextAfterCarveError(d, n) == d + 1

\* lines 146-155: one iteration of the carving loop
CarveOneDump ==
    /\ main_pc = "carve"
    /\ di <= Len(args.dumps)
    /\ carve_log' = Append(carve_log, [dump |-> di, outcome |-> args.dumps[di].carve])
    /\ IF args.dumps[di].carve = "interrupt"
       THEN /\ main_pc' = "exit"
            /\ exit_code' = 130
            /\ UNCHANGED di
       ELSE IF args.dumps[di].carve = "error" /\ ~CaughtByExcept("Exception")
       THEN /\ main_pc' = "exit"
            /\ exit_code' = 1
            /\ UNCHANGED di
       ELSE /\ di' = IF args.dumps[di].carve = "error"
                     THEN NextAfterCarveError(di, Len(args.dumps)) ELSE di + 1
            /\ UNCHANGED <<main_pc, exit_code>>
    /\ UNCHANGED <<args, module_results, integrity_run>>
    /\ UNCHANGED <<xvars, NotMain>>

\* lines 157-174: statistics, the optional integrity report, return 0
Finish ==
    /\ main_pc = "carve"
    /\ di > Len(args.dumps)
    /\ LET total == Len(SelectSeq(carve_log, LAMBDA e : e.outcome = "ok"))
       IN  IF args.check_integrity /\ total > 0
           THEN IF ~args.integrity_error
                THEN integrity_run' = "written" /\ main_pc' = "exit" /\ exit_code' = 0
                ELSE IF CaughtByExcept("Exception")
                THEN integrity_run' = "error" /\ main_pc' = "exit" /\ exit_code' = 0
                ELSE integrity_run' = "error" /\ main_pc' = "exit" /\ exit_code' = 1
           ELSE integrity_run' = "none" /\ main_pc' = "exit" /\ exit_code' = 0
    /\ UNCHANGED <<args, di, module_results, carve_log>>
    /\ UNCHANGED <<xvars, NotMain>>

MNext ==
    \/ MainStart \/ StartExtract \/ FinishExtract \/ InterruptExtract
    \/ CarveOneDump \/ Finish
    \/ ParseDump \/ SelectModuleRanges \/ CopyRange \/ CheckAndSave \/ SaveModuleList

(***************************************************************************)
(* Properties of the driver                                                *)
(***************************************************************************)
Malformed(d) == ParseFailure(d) # "none"

ValidationPassed == main_pc # "start" /\ ~(main_pc = "exit" /\ di = 0)

Cancelled ==
    \/ \E k \in DOMAIN module_results : module_results[k].outcome = "interrupt"
    \/ \E k \in DOMAIN carve_log : carve_log[k].outcome = "interrupt"

Exited == main_pc = "exit"

\* C13: a dump with an invalid MDMP header or a truncated stream directory,
\* module list or memory64 list makes extract_modules return an empty list
\* without raising and without writing a file, and main still extracts the
\* modules of every other dump and carves every dump.
C13_MalformedDumpFailsAlone ==
    /\ (main_pc = "extracting" /\ pc \in {"done", "raised"} /\ Malformed(mdmp))
           => (pc = "done" /\ extracted_modules = <<>> /\ out_files = <<>>)
    /\ \A k \in DOMAIN module_results :
           LET r == module_results[k]
           IN  (Malformed(args.dumps[r.dump].mdmp) /\ r.outcome \notin {"interrupt", "error"})
                  => (r.outcome = "returned" /\ r.modules = <<>>)
    /\ (Exited /\ ValidationPassed /\ ~Cancelled /\ args.extract_modules)
           => /\ \A i \in DOMAIN args.dumps :
                    \E k \in DOMAIN module_results : module_results[k].dump = i
              /\ \A i \in DOMAIN args.dumps :
                    \E k \in DOMAIN carve_log : carve_log[k].dump = i
              /\ \A k \in DOMAIN module_results :
                    (~Malformed(args.dumps[module_results[k].dump].mdmp)
                        /\ module_results[k].outcome = "returned")
                      => module_results[k].modules # <<>>

\* a finished run over a truncated dump followed by a sound one: nothing from
\* the first, the module of the second, both carved
C13_Witness ==
    /\ Exited
    /\ Len(args.dumps) = 2
    /\ ParseFailure(args.dumps[1].mdmp) = "struct.error"
    /\ ~Malformed(args.dumps[2].mdmp)
    /\ Len(module_results) = 2
    /\ module_results[1].outcome = "returned" /\ module_results[1].modules = <<>>
    /\ module_results[2].outcome = "returned" /\ module_results[2].modules # <<>>
    /\ Len(carve_log) = 2

\* some dump of the batch failed with an error
SomeDumpError ==
    \/ \E k \in DOMAIN carve_log : carve_log[k].outcome = "error"
    \/ \E k \in DOMAIN module_results :
          \/ module_results[k].outcome = "error"
          \/ /\ module_results[k].outcome = "returned"
             /\ Malformed(args.dumps[module_results[k].dump].mdmp)

\* C14: the exit code is 0 on success, 1 on a generic error, 130 on user
\* cancellation: a run in which a dump failed with an error does not exit with
\* 0, and a run cancelled during module extraction or carving exits with 130.
C14_ExitCodes ==
    Exited =>
        /\ exit_code \in {0, 1, 130}
        /\ SomeDumpError => exit_code # 0
        /\ Cancelled => exit_code = 130

MaxFiles == 3

ReportName == [prefix |-> "integrity", rest |-> "report.txt"]

\* line 504: the prefixes generate_integrity_report knows, in its order
ListedTypes ==
    <<"dds", "xma", "nif", "kf", "egm", "egt", "script_begin", "script_scriptname",
      "bik", "esp", "esm", "lip", "wav", "mp3", "ogg">>

\* lines 503-510: the first listed type the file name starts with, "none" if none
FileTypeOf(name) ==
    IF \E k \in DOMAIN ListedTypes : ListedTypes[k] = name.prefix
    THEN name.prefix ELSE "none"

NewResult == [valid |-> FALSE, size |-> 0, issues |-> <<>>, info |-> <<>>]

\* lines 262-275: _check_lip
CheckLip(data, file_size, result) ==
    IF Len(data) < 8
    THEN [result EXCEPT !.issues = Append(@, "File too small for LIP header")]
    ELSE IF Slice(data, 0, 4) # <<76, 73, 80, 83>>
    THEN [result EXCEPT !.issues = Append(@, "Invalid LIP magic bytes")]
    ELSE [result EXCEPT !.info = <<"type">>, !.valid = TRUE]

\* lines 327-350: _check_mp3
CheckMp3(data, file_size, result) ==
    IF Len(data) < 3
    THEN [result EXCEPT !.issues = Append(@, "File too small for MP3 header")]
    ELSE IF Slice(data, 0, 2) \notin {<<255, 251>>, <<255, 250>>, <<255, 243>>, <<255, 242>>}
    THEN [result EXCEPT !.issues = Append(@, "Invalid MP3 sync bytes")]
    ELSE IF Len(data) >= 4
    THEN [result EXCEPT !.info = <<"mpeg_version", "layer">>, !.valid = TRUE]
    ELSE [result EXCEPT !.issues = Append(@, "Incomplete MP3 header")]

\* lines 353-374: _check_ogg
CheckOgg(data, file_size, result) ==
    IF Len(data) < 27
    THEN [result EXCEPT !.issues = Append(@, "File too small for OGG header")]
    ELSE IF Slice(data, 0, 4) # <<79, 103, 103, 83>>
    THEN [result EXCEPT !.issues = Append(@, "Invalid OggS magic bytes")]
    ELSE [result EXCEPT
            !.issues = IF data[5] # 0 THEN Append(@, "Unknown OGG version") ELSE @,
            !.info = <<"version", "header_type">>,
            !.valid = (data[5] = 0)]

\* read_uint32_be of .utils (line 9): four bytes, most significant first
U32BE(b) == 16777216 * b[1] + 65536 * b[2] + 256 * b[3] + b[4]

\* lines 90-124: _check_dds
CheckDds(data, file_size, result) ==
    IF Len(data) < 128
    THEN [result EXCEPT !.issues = Append(@, "File too small for DDS header")]
    ELSE IF Slice(data, 0, 4) # <<68, 68, 83, 32>>
    THEN [result EXCEPT !.issues = Append(@, "Invalid DDS magic bytes")]
    ELSE LET le == [header_size |-> U32LE(Slice(data, 4, 8)),
                    height |-> U32LE(Slice(data, 12, 16)),
                    width |-> U32LE(Slice(data, 16, 20))]
             be == [header_size |-> U32BE(Slice(data, 4, 8)),
                    height |-> U32BE(Slice(data, 12, 16)),
                    width |-> U32BE(Slice(data, 16, 20))]
             h == IF \/ le.header_size # 124 \/ le.height = 0 \/ le.width = 0
                     \/ le.height > 16384 \/ le.width > 16384
                  THEN be ELSE le
             sized == IF h.header_size # 124
                      THEN [result EXCEPT !.issues = Append(@, "Invalid header size")]
                      ELSE result
         IN  IF h.height = 0 \/ h.width = 0
             THEN [sized EXCEPT !.issues = Append(@, "Invalid dimensions")]
             ELSE IF h.height > 16384 \/ h.width > 16384
             THEN [sized EXCEPT !.issues = Append(@, "Suspicious dimensions")]
             ELSE [sized EXCEPT !.info = <<"width", "height", "fourcc">>, !.valid = TRUE]

\* str.count: the occurrences of pat in content from position i on, not
\* overlapping
RECURSIVE CountFrom(_, _, _)
CountFrom(content, pat, i) ==
    IF i + Len(pat) > Len(content) THEN 0
    ELSE IF SubSeq(content, i + 1, i + Len(pat)) = pat
    THEN 1 + CountFrom(content, pat, i + Len(pat))
    ELSE CountFrom(content, pat, i + 1)

\* lines 175-220: _check_script; the file is read as ASCII text, bytes above
\* 127 are ignored
CheckScript(contents, result) ==
    LET content == SelectSeq(contents, LAMBDA b : b < 128)
        Count(pat) == CountFrom(content, pat, 0)
        ScriptName == <<83, 99, 114, 105, 112, 116, 78, 97, 109, 101>>
        has_scriptname == Count(ScriptName) > 0 \/ Count(<<115, 99, 110, 32>>) > 0
        begin_count == Count(<<66, 69, 71, 73, 78>>) + Count(<<98, 101, 103, 105, 110>>)
        end_count == Count(<<10, 69, 78, 68>>) + Count(<<10, 101, 110, 100>>)
                         + Count(<<10, 69, 110, 100>>)
        has_begin == begin_count > 0
        has_end == end_count > 0
        named == \E i \in 0..(Len(content) - 10) :
                     /\ SubSeq(content, i + 1, i + 10) = ScriptName
                     /\ \A j \in 0..(i - 1) : SubSeq(content, j + 1, j + 10) # ScriptName
                     /\ \E k \in (i + 11)..Len(content) : content[k] = 10
        printable == Cardinality({ k \in DOMAIN content :
                                     content[k] \in 32..126 \cup {9, 10, 13} })
        issues == <<>>
            \o (IF ~has_scriptname THEN <<"No ScriptName found">> ELSE <<>>)
            \o (IF has_begin /\ ~has_end THEN <<"BEGIN found but no END">> ELSE <<>>)
            \o (IF begin_count # end_count THEN <<"Mismatched BEGIN/END">> ELSE <<>>)
            \o (IF Len(content) > 0 /\ printable * 10 < Len(content) * 9
                THEN <<"Contains non-printable characters">> ELSE <<>>)
    IN  [result EXCEPT
            !.issues = @ \o issues,
            !.info = (IF named THEN <<"script_name">> ELSE <<>>)
                         \o <<"begin_blocks", "end_blocks">>,
            !.valid = has_scriptname /\ (~has_begin \/ has_end)]

\* lines 16-87: check_file on an existing file of one of the modelled types
CheckFile(contents, file_type) ==
    IF Len(contents) = 0
    THEN [NewResult EXCEPT !.issues = <<"File is empty">>]
    ELSE LET result == [NewResult EXCEPT !.size = Len(contents)]
             data == Slice(contents, 0, Min(Len(contents), 2048))
         IN  CASE file_type = "dds" -> CheckDds(data, Len(contents), result)
               [] file_type = "script_begin" -> CheckScript(contents, result)
               [] file_type = "lip" -> CheckLip(data, Len(contents), result)
               [] file_type = "mp3" -> CheckMp3(data, Len(contents), result)
               [] file_type = "ogg" -> CheckOgg(data, Len(contents), result)

\* carved files by prefix: sound ones, short ones, ones with a wrong magic,
\* empty ones; "bsa" is carved but not in the list of line 504
OggPage(version) == <<79, 103, 103, 83, version>> \o [k \in 1..22 |-> 0]

\* a DDS file of 128 bytes with the given header size, height and width fields
DdsFile(header_size, height, width) ==
    <<68, 68, 83, 32>> \o header_size \o <<0, 0, 0, 0>> \o height \o width
        \o [k \in 1..108 |-> 0]

\* "scn A", then one "begin" line per block, then one "end" line per end
ScriptText(begins, ends) ==
    <<115, 99, 110, 32, 65>> \o Flatten([k \in 1..begins |-> <<10, 98, 101, 103, 105, 110>>])
        \o Flatten([k \in 1..ends |-> <<10, 101, 110, 100>>])

CarvedContents(prefix) ==
    CASE prefix = "lip" -> { <<76, 73, 80, 83, 1, 0, 0, 0>>, <<76, 73, 80, 83>>,
                             <<0, 73, 80, 83, 1, 0, 0, 0>>, <<>> }
      [] prefix = "mp3" -> { <<255, 251, 144, 0>>, <<255, 251, 144>>, <<73, 68, 51, 3>> }
      [] prefix = "ogg" -> { OggPage(0), OggPage(1), <<79, 103, 103, 83>> }
      [] prefix = "bsa" -> { <<66, 83, 65, 0>> }
      [] prefix = "dds" -> { DdsFile(<<124, 0, 0, 0>>, <<0, 1, 0, 0>>, <<0, 2, 0, 0>>),
                             DdsFile(<<0, 0, 0, 124>>, <<0, 0, 1, 0>>, <<0, 0, 2, 0>>),
                             DdsFile(<<0, 0, 0, 0>>, <<0, 0, 1, 0>>, <<0, 0, 2, 0>>),
                             <<68, 68, 83, 32>> }
      [] prefix = "script_begin" -> { ScriptText(1, 1), ScriptText(2, 1), ScriptText(1, 0),
                                      <<115, 99, 110, 32, 1>> }

CarvedTypes == {"lip", "mp3", "ogg", "bsa", "dds", "script_begin"}

CarvedNames == { [prefix |-> t, rest |-> "1"] : t \in CarvedTypes }

\* the directories that hold the files names, each with one of the contents
\* of its type
RECURSIVE DirsOver(_)
DirsOver(names) ==
    IF names = {} THEN {<<>>}
    ELSE LET nm == CHOOSE x \in names : TRUE
         IN  { (nm :> c) @@ dir :
                 dir \in DirsOver(names \ {nm}),
                 c \in IF nm = ReportName THEN {<<"old report">>}
                       ELSE CarvedContents(nm.prefix) }

\* the output directory before the pass: up to n carved files, and perhaps
\* the report of an earlier pass
OutputDirs(n) ==
    UNION { DirsOver(ns \cup old) :
              ns \in { x \in SUBSET CarvedNames : Cardinality(x) <= n },
              old \in {{}, {ReportName}} }

IInit ==
    /\ int_pc = "open"
    /\ file_types \in {{}, {"lip", "ogg"}}
    /\ out_dir \in OutputDirs(MaxFiles)
    /\ out_dir0 = out_dir
    /\ visited = {}

IIdle ==
    /\ int_pc = "idle"
    /\ file_types = {}
    /\ out_dir = <<>>
    /\ out_dir0 = <<>>
    /\ visited = {}

\* mutant: the directory is emptied before the file is written
WithFile_Alone(dir, nm, c) == [x \in {nm} |-> c]

\* open(..., "w") and write: dir with the file nm holding c
WithFile(dir, nm, c) ==
    [x \in DOMAIN dir \cup {nm} |-> IF x = nm THEN c ELSE dir[x]]

\* lines 484-490: open(report_path, "w") creates or truncates the report
OpenReport ==
    /\ int_pc = "open"
    /\ out_dir' = WithFile(out_dir, ReportName, <<>>)
    /\ int_pc' = "walk"
    /\ UNCHANGED <<file_types, out_dir0, visited>>
    /\ UNCHANGED NotIntegrity

\* lines 495-497: the report itself is skipped
SkippedByName(nm) == nm = ReportName

\* lines 493-532: one file of os.walk, in whatever order it yields them
CheckOneFile ==
    /\ int_pc = "walk"
    /\ \E nm \in DOMAIN out_dir \ visited :
          /\ visited' = visited \cup {nm}
          /\ LET file_type == FileTypeOf(nm)
                 result == CheckFile(out_dir[nm], file_type)
             IN  IF \/ SkippedByName(nm)
                    \/ file_type = "none"
                    \/ (file_types # {} /\ file_type \notin file_types)
                 THEN UNCHANGED out_dir
                 ELSE out_dir' = WithFile(out_dir, ReportName,
                         Append(out_dir[ReportName],
                                [status |-> IF result.valid THEN "VALID" ELSE "INVALID",
                                 path |-> nm, type |-> file_type, size |-> result.size,
                                 info |-> result.info, issues |-> result.issues]))
    /\ UNCHANGED <<int_pc, file_types, out_dir0>>
    /\ UNCHANGED NotIntegrity

\* lines 534-538: the trailer, the report is closed and its path returned
CloseReport ==
    /\ int_pc = "walk"
    /\ visited = DOMAIN out_dir
    /\ int_pc' = "done"
    /\ UNCHANGED <<file_types, out_dir, out_dir0, visited>>
    /\ UNCHANGED NotIntegrity

INext == OpenReport \/ CheckOneFile \/ CloseReport

\* what the check of each modelled type asks of a file before it calls it
\* valid (its header complete, its magic right, a known version; for dds the
\* dimensions within 1..16384 in one byte order; for a script a name and no
\* block left open)
SoundContents(t) ==
    CASE t = "lip" -> { <<76, 73, 80, 83, 1, 0, 0, 0>> }
      [] t = "mp3" -> { <<255, 251, 144, 0>> }
      [] t = "ogg" -> { OggPage(0) }
      [] t = "dds" -> { DdsFile(hs, <<0, 1, 0, 0>>, <<0, 2, 0, 0>>) : hs \in {<<124, 0, 0, 0>>} }
                      \cup { DdsFile(hs, <<0, 0, 1, 0>>, <<0, 0, 2, 0>>) :
                               hs \in {<<0, 0, 0, 124>>, <<0, 0, 0, 0>>} }
      [] t = "script_begin" -> { ScriptText(1, 1), ScriptText(2, 1), <<115, 99, 110, 32, 1>> }
      [] OTHER -> {}

\* C20: the integrity pass never deletes, renames or modifies a carved file:
\* at every point of the pass the files other than integrity_report.txt are
\* those that were there, with their contents; and every checked file whose
\* check fails has an INVALID entry in the report, no VALID one.
C20_IntegrityPassKeepsFiles ==
    /\ DOMAIN out_dir \ {ReportName} = DOMAIN out_dir0 \ {ReportName}
    /\ \A nm \in DOMAIN out_dir0 \ {ReportName} : out_dir[nm] = out_dir0[nm]
    /\ int_pc = "done" =>
          /\ ReportName \in DOMAIN out_dir
          /\ \A k \in DOMAIN out_dir[ReportName] : out_dir[ReportName][k].path # ReportName
          /\ \A nm \in DOMAIN out_dir0 \ {ReportName} :
                LET t == FileTypeOf(nm)
                    entries == { e \in Range(out_dir[ReportName]) : e.path = nm }
                IN  (t # "none" /\ (file_types = {} \/ t \in file_types))
                       => /\ Cardinality(entries) = 1
                          /\ \A e \in entries :
                                (e.status = "VALID") <=> (out_dir0[nm] \in SoundContents(t))

\* a finished pass over a directory that held an earlier report, a sound file
\* and a damaged one: the damaged file is still there and is labelled INVALID
C20_Witness ==
    /\ int_pc = "done"
    /\ ReportName \in DOMAIN out_dir0
    /\ \E e \in Range(out_dir[ReportName]) : e.status = "VALID"
    /\ \E e \in Range(out_dir[ReportName]) :
          /\ e.status = "INVALID"
          /\ e.path \in DOMAIN out_dir
          /\ out_dir[e.path] = out_dir0[e.path]

\* C28: a file is reported valid only if its list of issues is empty: no
\* entry of the report says VALID and lists an issue.
C28_ValidHasNoIssues ==
    int_pc \in {"walk", "done"} =>
        \A k \in DOMAIN out_dir[ReportName] :
            out_dir[ReportName][k].status = "VALID" => out_dir[ReportName][k].issues = <<>>

(***************************************************************************)
(* The string extractor (src/extract_strings.py): StringExtractor()        *)
(* followed by extract_strings()                                           *)
(***************************************************************************)
MaxBlocks == 3
MaxCarved == 2

MIN_ASCII_LENGTH == 8
MIN_UTF16_LENGTH == 6

\* the bytes of the regular expression of line 187: printable ASCII, \t, \r, \n
AsciiClass == 32..126 \cup {9, 10, 13}

\* str.isspace and str.isalnum on the characters a text can hold: ASCII, and
\* the UTF-16 code units of the blocks U+2000..U+20FF and U+3400..U+9FFF
IsSpace(c) == c \in 9..13 \cup {32}
IsAlnum(c) ==
    \/ c \in 48..57 \cup 65..90 \cup 97..122
    \/ c \in 8304..8305 \cup 8308..8313 \cup 8319..8329 \cup 8336..8348
    \/ c \in 13312..40959

\* line 229-231: bytes([low, high]).decode("utf-16-le") succeeds (no lone
\* surrogate) and the character is printable, for the same code units
IsPrintable16(c) ==
    /\ c \notin 55296..57343
    /\ c \notin 8192..8207 \cup 8232..8239 \cup 8287..8303 \cup 8306..8307
    /\ c \notin {8335} \cup 8349..8351 \cup 8385..8399 \cup 8433..8447

\* str.strip(): from the first to the last character that is not whitespace
Strip(text) ==
    LET inked == { k \in DOMAIN text : ~IsSpace(text[k]) }
    IN  IF inked = {} THEN <<>>
        ELSE SubSeq(text, CHOOSE k \in inked : \A j \in inked : k <= j,
                          CHOOSE k \in inked : \A j \in inked : k >= j)

\* lines 246-264: _is_meaningful
IsMeaningful(text) ==
    LET alnum_count == Cardinality({ k \in DOMAIN text : IsAlnum(text[k]) })
        distinct == { text[k] : k \in DOMAIN text } \ {32}
        hex == 48..57 \cup 65..70 \cup 97..102
    IN  /\ Len(Strip(text)) >= 4
        /\ alnum_count * 10 >= Len(text) * 3
        /\ Cardinality(distinct) >= 3
        /\ ~(Len(text) > 20 /\ \A k \in DOMAIN text : text[k] \in hex \/ IsSpace(text[k]))

\* the end (0-based, exclusive) of the run of AsciiClass bytes that starts at i
RECURSIVE RunEnd(_, _)
RunEnd(data, i) ==
    IF i < Len(data) /\ data[i + 1] \in AsciiClass THEN RunEnd(data, i + 1) ELSE i

\* lines 189-197: re.finditer over the maximal runs of at least 8 bytes
RECURSIVE AsciiFrom(_, _, _)
AsciiFrom(data, i, strings) ==
    IF i >= Len(data) THEN strings
    ELSE LET j == RunEnd(data, i)
             decoded == Strip(Slice(data, i, j))
         IN  IF j - i < MIN_ASCII_LENGTH THEN AsciiFrom(data, Max(j, i + 1), strings)
             ELSE IF Len(decoded) >= MIN_ASCII_LENGTH /\ IsMeaningful(decoded)
             THEN AsciiFrom(data, j, Append(strings,
                      [offset |-> i, text |-> decoded, encoding |-> "ascii", length |-> j - i]))
             ELSE AsciiFrom(data, j, strings)

\* lines 181-199: _extract_ascii
ExtractAscii(data) == AsciiFrom(data, 0, <<>>)

\* lines 214-236: the inner loop, from position i with the characters read so
\* far; the result is the characters and the position the loop stopped at
RECURSIVE Collect(_, _, _)
Collect(data, i, chars) ==
    IF ~(i < Len(data) - 1) THEN <<chars, i>>
    ELSE LET low == data[i + 1]
             high == data[i + 2]
         IN  IF high = 0 /\ low \in AsciiClass
             THEN Collect(data, i + 2, Append(chars, low))
             ELSE IF high # 0 /\ IsPrintable16(low + 256 * high)
             THEN Collect(data, i + 2, Append(chars, low + 256 * high))
             ELSE <<chars, i>>

\* lines 208-242: the outer loop of _extract_utf16le
RECURSIVE Utf16From(_, _, _)
Utf16From(data, i, strings) ==
    IF ~(i < Len(data) - 2) THEN strings
    ELSE IF data[i + 1] \in 32..126 /\ data[i + 2] = 0
    THEN LET c == Collect(data, i, <<>>)
             text == Strip(c[1])
         IN  IF Len(text) >= MIN_UTF16_LENGTH /\ IsMeaningful(text)
             THEN Utf16From(data, c[2], Append(strings,
                      [offset |-> i, text |-> text, encoding |-> "utf-16-le",
                       length |-> c[2] - i]))
             ELSE Utf16From(data, c[2], strings)
    ELSE Utf16From(data, i + 1, strings)

\* lines 201-244: _extract_utf16le
ExtractUtf16le(data) == Utf16From(data, 0, <<>>)

\* lines 90-97: merge the sorted regions
RECURSIVE MergeCarved(_, _)
MergeCarved(merged_regions, rest) ==
    IF rest = <<>> THEN merged_regions
    ELSE LET p == Head(rest)
             n == Len(merged_regions)
         IN  IF n > 0 /\ p[1] <= merged_regions[n][2]
             THEN MergeCarved([merged_regions EXCEPT
                                 ![n] = <<merged_regions[n][1], Max(merged_regions[n][2], p[2])>>],
                              Tail(rest))
             ELSE MergeCarved(Append(merged_regions, p), Tail(rest))

\* lines 82-97: the regions _load_carved_regions keeps, sorted and merged
LoadedRegions(entries) ==
    LET kept == SelectSeq(entries, LAMBDA e : e.offset # 0 /\ e.size_in_dump # 0)
        pairs == [k \in DOMAIN kept |->
                     <<kept[k].offset, kept[k].offset + kept[k].size_in_dump>>]
    IN  MergeCarved(<<>>, SortPairs(pairs))

\* lines 104-114: the binary search between lo and hi
RECURSIVE SearchRegions(_, _, _, _)
SearchRegions(regions, offset, lo, hi) ==
    IF ~(lo < hi) THEN FALSE
    ELSE LET mid == (lo + hi) \div 2
             start == regions[mid + 1][1]
             end == regions[mid + 1][2]
         IN  IF start <= offset /\ offset < end THEN TRUE
             ELSE IF offset < start THEN SearchRegions(regions, offset, lo, mid)
             ELSE SearchRegions(regions, offset, mid + 1, hi)

\* lines 101-114: _is_in_carved_region
IsInCarvedRegion(regions, offset) == SearchRegions(regions, offset, 0, Len(regions))

\* mutant: every string outside the carved regions is appended, seen or not
RECURSIVE KeepNew_NoDedup(_, _, _, _, _)
KeepNew_NoDedup(found, skip_carved, regions, kept, texts) ==
    IF found = <<>> THEN <<kept, texts>>
    ELSE LET s == Head(found)
         IN  IF skip_carved /\ IsInCarvedRegion(regions, s.offset)
             THEN KeepNew_NoDedup(Tail(found), skip_carved, regions, kept, texts)
             ELSE KeepNew_NoDedup(Tail(found), skip_carved, regions, Append(kept, s),
                                  texts \cup {s.text})

\* lines 142-149 and 160-167: the loop over the strings found; the result is
\* all_strings and seen_texts
RECURSIVE KeepNew(_, _, _, _, _)
KeepNew(found, skip_carved, regions, kept, texts) ==
    IF found = <<>> THEN <<kept, texts>>
    ELSE LET s == Head(found)
         IN  IF skip_carved /\ IsInCarvedRegion(regions, s.offset)
             THEN KeepNew(Tail(found), skip_carved, regions, kept, texts)
             ELSE IF s.text \notin texts
             THEN KeepNew(Tail(found), skip_carved, regions, Append(kept, s), texts \cup {s.text})
             ELSE KeepNew(Tail(found), skip_carved, regions, kept, texts)

\* the dumps: up to n blocks, each an ASCII text with a leading space, the
\* same text in UTF-16LE with its terminator, a text that is mostly
\* punctuation, or a byte that is not printable
StringDumps(n) ==
    LET text == <<32, 65, 66, 67, 65, 66, 67, 65, 66>>
        wide == <<65, 0, 66, 0, 67, 0, 65, 0, 66, 0, 67, 0, 65, 0, 66, 0, 0, 0>>
        dots == <<65, 46, 46, 46, 46, 46, 46, 66>>
    IN  { Flatten(bs) : bs \in SeqsUpTo({text, wide, dots, <<128>>}, n) }

\* the manifests: up to n entries, in any order, among them an entry carved at
\* offset 0, an entry of size 0 and two that overlap
CarvedManifests(n) ==
    SeqsUpTo({ [offset |-> 0, size_in_dump |-> 9], [offset |-> 12, size_in_dump |-> 0],
               [offset |-> 9, size_in_dump |-> 8], [offset |-> 15, size_in_dump |-> 9] }, n)

\* exclude_carved defaults to True; without it the manifest plays no part, and
\* one entry is enough
SInit ==
    /\ se_pc = "construct"
    /\ se_data \in StringDumps(MaxBlocks)
    /\ \/ exclude_carved = TRUE /\ se_entries \in CarvedManifests(MaxCarved)
       \/ exclude_carved = FALSE /\ se_entries \in CarvedManifests(1)
    /\ carved_regions = <<>>
    /\ all_strings = <<>>
    /\ seen_texts = {}

SIdle ==
    /\ se_pc = "idle"
    /\ se_data = <<>>
    /\ se_entries = <<>>
    /\ exclude_carved = FALSE
    /\ carved_regions = <<>>
    /\ all_strings = <<>>
    /\ seen_texts = {}

\* lines 68-75: __init__ loads the carved regions of the manifest
LoadCarvedRegions ==
    /\ se_pc = "construct"
    /\ carved_regions' = LoadedRegions(se_entries)
    /\ se_pc' = "ascii"
    /\ UNCHANGED <<se_data, se_entries, exclude_carved, all_strings, seen_texts>>
    /\ UNCHANGED NotStrings

\* lines 131-153: the ASCII pass of extract_strings
ScanAscii ==
    /\ se_pc = "ascii"
    /\ LET skip_carved == exclude_carved /\ carved_regions # <<>>
           r == KeepNew(ExtractAscii(se_data), skip_carved, carved_regions, <<>>, {})
       IN  /\ all_strings' = r[1]
           /\ seen_texts' = r[2]
    /\ se_pc' = "utf16"
    /\ UNCHANGED <<se_data, se_entries, exclude_carved, carved_regions>>
    /\ UNCHANGED NotStrings

\* lines 155-179: the UTF-16LE pass of extract_strings and its return
ScanUtf16 ==
    /\ se_pc = "utf16"
    /\ LET skip_carved == exclude_carved /\ carved_regions # <<>>
           r == KeepNew(ExtractUtf16le(se_data), skip_carved, carved_regions,
                        all_strings, seen_texts)
       IN  /\ all_strings' = r[1]
           /\ seen_texts' = r[2]
    /\ se_pc' = "done"
    /\ UNCHANGED <<se_data, se_entries, exclude_carved, carved_regions>>
    /\ UNCHANGED NotStrings

SNext == LoadCarvedRegions \/ ScanAscii \/ ScanUtf16

(***************************************************************************)
(* Properties of the string extractor                                      *)
(***************************************************************************)
\* the offsets some manifest entry of positive size covers
CarvedOffsets ==
    { x \in 0..40 :
        \E k \in DOMAIN se_entries :
            /\ se_entries[k].size_in_dump > 0
            /\ se_entries[k].offset <= x
            /\ x < se_entries[k].offset + se_entries[k].size_in_dump }

\* C27: after _load_carved_regions the list carved_regions is sorted and
\* pairwise disjoint, and _is_in_carved_region(x) is true exactly when x lies
\* in [offset, offset + size_in_dump) of some manifest entry of positive size,
\* an entry carved at offset 0 included.
C27_CarvedRegionLookup ==
    se_pc \notin {"idle", "construct"} =>
        /\ \A k \in DOMAIN carved_regions : carved_regions[k][1] < carved_regions[k][2]
        /\ \A k \in 1..(Len(carved_regions) - 1) :
               carved_regions[k][2] < carved_regions[k + 1][1]
        /\ \A x \in 0..40 : IsInCarvedRegion(carved_regions, x) <=> x \in CarvedOffsets

\* line 133: carved regions are skipped
ExclusionActive == exclude_carved /\ carved_regions # <<>>

\* the offset lies in one of the loaded carved regions
InCarved(offset) ==
    \E k \in DOMAIN carved_regions :
        carved_regions[k][1] <= offset /\ offset < carved_regions[k][2]

\* the texts _extract_ascii and _extract_utf16le both find in the dump
FoundBoth ==
    { a.text : a \in Range(ExtractAscii(se_data)) }
        \cap { u.text : u \in Range(ExtractUtf16le(se_data)) }

\* the text has an ASCII occurrence that the exclusion does not skip
AsciiNotSkipped(text) ==
    \E a \in Range(ExtractAscii(se_data)) :
        a.text = text /\ ~(ExclusionActive /\ InCarved(a.offset))

NoTextTwice ==
    \A i, j \in DOMAIN all_strings :
        all_strings[i].text = all_strings[j].text => i = j

OutsideCarved ==
    ExclusionActive => \A k \in DOMAIN all_strings : ~InCarved(all_strings[k].offset)

KeptAsAscii(text) ==
    \E k \in DOMAIN all_strings :
        all_strings[k].text = text /\ all_strings[k].encoding = "ascii"

\* C30 as stated: the returned list holds each text at most once, every
\* returned string starts outside all carved regions when exclusion is active,
\* and a text found both as ASCII and as UTF-16LE is kept as its ASCII
\* occurrence.
C30_AsciiAlwaysKept ==
    se_pc = "done" =>
        /\ NoTextTwice
        /\ OutsideCarved
        /\ \A text \in FoundBoth : KeptAsAscii(text)

\* C30, amended: the returned list holds each text at most once, every
\* returned string starts outside all carved regions when exclusion is active,
\* and a text found both as UTF-16LE and as an ASCII string that the exclusion
\* does not skip is kept as an ASCII occurrence, never as the UTF-16LE one.
C30_AsciiKeptUnlessCarved ==
    se_pc = "done" =>
        /\ NoTextTwice
        /\ OutsideCarved
        /\ \A text \in FoundBoth :
               AsciiNotSkipped(text) =>
                   /\ KeptAsAscii(text)
                   /\ \A k \in DOMAIN all_strings :
                          all_strings[k].text = text => all_strings[k].encoding = "ascii"

\* a finished extraction with exclusion active where a text was found as ASCII
\* and as UTF-16LE, both outside the carved regions, and only the ASCII
\* occurrence is returned
C30_Witness ==
    /\ se_pc = "done"
    /\ ExclusionActive
    /\ \E text \in FoundBoth :
          /\ AsciiNotSkipped(text)
          /\ \E u \in Range(ExtractUtf16le(se_data)) : u.text = text /\ ~InCarved(u.offset)
          /\ \E k \in DOMAIN all_strings :
                all_strings[k].text = text /\ all_strings[k].encoding = "ascii"
          /\ ~\E k \in DOMAIN all_strings :
                all_strings[k].text = text /\ all_strings[k].encoding = "utf-16-le"

(***************************************************************************)
(* The high-entropy scan (src/compare_dumps.py):                           *)
(* analyze_high_entropy_details                                            *)
(***************************************************************************)
MaxChunks == 4

EntropyChunkSize == 65536
MinEvaluated == 1024
HighEntropy == 7

\* lines 14-20: the Shannon entropy of a chunk whose bytes take `values`
\* different values, each equally often: log2(values); 0 for an empty chunk
Entropy(chunk) ==
    IF chunk.len = 0 THEN 0 ELSE CHOOSE e \in 0..8 : 2 ^ e = chunk.values

\* mutant: the threshold itself does not count as high
IsHigh_Strict(ent) == ent > HighEntropy

\* line 233: ent >= 7.0
IsHigh(ent) == ent >= HighEntropy

\* len(data)
DataLen(chunks) == SumSeq([k \in DOMAIN chunks |-> chunks[k].len])

\* the dumps: up to n chunks of 64 KiB, the last one perhaps shorter, also
\* shorter than the 1024 bytes an evaluated chunk needs; each chunk uniform
\* over 1, 64, 128 or 256 byte values (entropy 0, 6, 7, 8)
ChunkLists(n) ==
    { c \in SeqsUpTo([len : {512, MinEvaluated, EntropyChunkSize}, values : {1, 64, 128, 256}], n) :
        \A k \in 1..(Len(c) - 1) : c[k].len = EntropyChunkSize }

HInit ==
    /\ he_pc = "loop"
    /\ he_data \in ChunkLists(MaxChunks)
    /\ min_size \in {0, EntropyChunkSize, EntropyChunkSize + MinEvaluated, 2 * EntropyChunkSize}
    /\ he_offset = 0
    /\ in_region = FALSE
    /\ region_start = 0
    /\ entropy_regions = <<>>

HIdle ==
    /\ he_pc = "idle"
    /\ he_data = <<>>
    /\ min_size = 0
    /\ he_offset = 0
    /\ in_region = FALSE
    /\ region_start = 0
    /\ entropy_regions = <<>>

\* lines 227-242: one round of the loop over the chunks
EvaluateChunk ==
    /\ he_pc = "loop"
    /\ he_offset < DataLen(he_data)
    /\ LET chunk == he_data[(he_offset \div EntropyChunkSize) + 1]
           region_size == he_offset - region_start
       IN  IF chunk.len < MinEvaluated
           THEN UNCHANGED <<in_region, region_start, entropy_regions>>
           ELSE IF IsHigh(Entropy(chunk))
           THEN /\ in_region' = TRUE
                /\ region_start' = IF in_region THEN region_start ELSE he_offset
                /\ UNCHANGED entropy_regions
           ELSE /\ in_region' = FALSE
                /\ entropy_regions' =
                       IF in_region /\ region_size >= min_size
                       THEN Append(entropy_regions, <<region_start, region_size>>)
                       ELSE entropy_regions
                /\ UNCHANGED region_start
    /\ he_offset' = he_offset + EntropyChunkSize
    /\ UNCHANGED <<he_pc, he_data, min_size>>
    /\ UNCHANGED NotEntropy

\* lines 244-248: the region still open at the end of the file
CloseLastRegion ==
    /\ he_pc = "loop"
    /\ he_offset >= DataLen(he_data)
    /\ entropy_regions' =
           IF in_region /\ DataLen(he_data) - region_start >= min_size
           THEN Append(entropy_regions, <<region_start, DataLen(he_data) - region_start>>)
           ELSE entropy_regions
    /\ he_pc' = "done"
    /\ UNCHANGED <<he_data, min_size, he_offset, in_region, region_start>>
    /\ UNCHANGED NotEntropy

HNext == EvaluateChunk \/ CloseLastRegion

(***************************************************************************)
(* Properties of the high-entropy scan                                     *)
(***************************************************************************)
\* chunk k was evaluated, and as high or as low
High(k) == he_data[k].len >= MinEvaluated /\ Entropy(he_data[k]) >= HighEntropy
Low(k) == he_data[k].len >= MinEvaluated /\ Entropy(he_data[k]) < HighEntropy

\* the maximal runs i..j of chunks evaluated as high, as (start, size): a run
\* ends where a chunk evaluated as low begins, or at the end of the data
MaximalRuns ==
    { <<(r[1] - 1) * EntropyChunkSize,
        (IF r[2] < Len(he_data) /\ Low(r[2] + 1)
         THEN r[2] * EntropyChunkSize ELSE DataLen(he_data)) - (r[1] - 1) * EntropyChunkSize>> :
        r \in { p \in (DOMAIN he_data) \X (DOMAIN he_data) :
                  /\ p[1] <= p[2]
                  /\ \A k \in p[1]..p[2] : High(k)
                  /\ p[1] = 1 \/ ~High(p[1] - 1)
                  /\ p[2] = Len(he_data) \/ ~High(p[2] + 1) } }

\* C29: analyze_high_entropy_details reports exactly the maximal runs of
\* consecutive chunks of entropy >= 7.0 that are at least the minimum size
\* long: the regions are in ascending order, pairwise disjoint, start at a
\* multiple of the chunk size, hold no chunk evaluated as below the threshold,
\* and a run open at the end of the data ends at the end of the data.
C29_MaximalHighEntropyRuns ==
    he_pc = "done" =>
        /\ Range(entropy_regions) = { r \in MaximalRuns : r[2] >= min_size }
        /\ \A k \in DOMAIN entropy_regions :
               /\ entropy_regions[k][1] % EntropyChunkSize = 0
               /\ entropy_regions[k][2] > 0
               /\ \A c \in DOMAIN he_data :
                      (/\ entropy_regions[k][1] <= (c - 1) * EntropyChunkSize
                       /\ (c - 1) * EntropyChunkSize
                              < entropy_regions[k][1] + entropy_regions[k][2]) => ~Low(c)
        /\ \A k \in 1..(Len(entropy_regions) - 1) :
               entropy_regions[k][1] + entropy_regions[k][2] <= entropy_regions[k + 1][1]
        /\ (in_region /\ DataLen(he_data) - region_start >= min_size) =>
               /\ entropy_regions # <<>>
               /\ LET last == entropy_regions[Len(entropy_regions)]
                  IN  last[1] + last[2] = DataLen(he_data)

\* a finished scan that reported two regions: one closed by a chunk below the
\* threshold, one of a chunk of entropy exactly 7.0 that runs to the end of
\* data whose last chunk is too short to be evaluated
C29_Witness ==
    /\ he_pc = "done"
    /\ Len(entropy_regions) = 2
    /\ Len(he_data) = 4
    /\ he_data[4].len < MinEvaluated
    /\ Entropy(he_data[3]) = HighEntropy
    /\ entropy_regions[2] = <<2 * EntropyChunkSize, EntropyChunkSize + he_data[4].len>>
    /\ min_size = EntropyChunkSize

(***************************************************************************)
(* The specifications                                                      *)
(***************************************************************************)
InitExtract == XInit /\ CIdle /\ KIdle /\ MIdle /\ IIdle /\ SIdle /\ HIdle
SpecExtract == InitExtract /\ [][XNext]_vars

InitCoverage == CInit /\ XIdle /\ KIdle /\ MIdle /\ IIdle /\ SIdle /\ HIdle
SpecCoverage == InitCoverage /\ [][CNext]_vars

InitCoverageLarge == CInitLarge /\ XIdle /\ KIdle /\ MIdle /\ IIdle /\ SIdle /\ HIdle
SpecCoverageLarge == InitCoverageLarge /\ [][CNext]_vars

InitCarve == KInit /\ XIdle /\ CIdle /\ MIdle /\ IIdle /\ SIdle /\ HIdle
SpecCarve == InitCarve /\ [][KNext]_vars

InitMain == MInit /\ XIdle /\ CIdle /\ KIdle /\ IIdle /\ SIdle /\ HIdle
SpecMain == InitMain /\ [][MNext]_vars

InitIntegrity == IInit /\ XIdle /\ CIdle /\ KIdle /\ MIdle /\ SIdle /\ HIdle
SpecIntegrity == InitIntegrity /\ [][INext]_vars

InitStrings == SInit /\ XIdle /\ CIdle /\ KIdle /\ MIdle /\ IIdle /\ HIdle
SpecStrings == InitStrings /\ [][SNext]_vars

InitEntropy == HInit /\ XIdle /\ CIdle /\ KIdle /\ MIdle /\ IIdle /\ SIdle
SpecEntropy == InitEntropy /\ [][HNext]_vars

====
